---- MODULE Spec2Model ----
(***************************************************************************)
(* State-machine model of the video-platform backend: process start-up     *)
(* (src/src/index.js), the express application stack (src/src/app.js),     *)
(* the user router, the verifyJWT middleware, asyncHandler and the user    *)
(* controller (registerUser .. getWatchHistory).                           *)
(*                                                                         *)
(* One request is one action: the requests of this specification are       *)
(* handled one at a time, each action being the whole pipeline             *)
(* (verifyJWT -> multer -> controller -> error handling) of one request.   *)
(*                                                                         *)
(* The requests the clients send are drawn from a workload, fixed for a    *)
(* behaviour: "session" varies the credentials, the passwords and the      *)
(* clock; "accounts" varies the bodies of register, login and              *)
(* update-account; "assets" varies the uploaded files and the answers of   *)
(* the asset host.  The state space is the union of the three.             *)
(***************************************************************************)
EXTENDS Integers, Sequences, FiniteSets, TLC

(***************************************************************************)
(* Bounds of the model.                                                    *)
(***************************************************************************)
MaxTime == 2      \* the clock (seconds, as in a JWT's iat) runs 0..MaxTime
MaxUsers == 2     \* at most this many user documents are created
MaxAssets == 4    \* at most this many assets live on the asset host at once
MaxClients == 2   \* this many clients have requests handled concurrently
MaxHistory == 2   \* a watchHistory list holds at most this many references
MaxVideos == 2    \* the videos collection holds at most this many documents
MaxSubs == 2      \* the subscriptions collection holds at most this many documents

(***************************************************************************)
(* Program configuration (process.env), in clock ticks.                    *)
(***************************************************************************)
REFRESH_TOKEN_EXPIRY == 2
ACCESS_TOKEN_EXPIRY == 1

(***************************************************************************)
(* Request values.  A text field of a request body is a string or Missing  *)
(* (undefined).                                                            *)
(***************************************************************************)
Missing == "<undefined>"
Usernames == {"a", "A", "b"}
Emails == {"x", "y"}
Passwords == {"p", "q"}
FullNames == {"n"}
FileNames == {"f"}

\* String.prototype.trim on the strings of the model
Trim(s) == IF s = " " THEN "" ELSE s

\* String.prototype.toLowerCase on the strings of the model
ToLowerCase(s) == IF s = "A" THEN "a" ELSE s

\* JavaScript falsiness of a text field: undefined and "" are falsy
Falsy(s) == s = Missing \/ s = ""

(***************************************************************************)
(* JSON web tokens.  A token is its payload (_id, iat) together with the   *)
(* secret that signed it (typ) and whether the signature is genuine (sig). *)
(* jwt.sign is deterministic: the same payload signed in the same second   *)
(* with the same secret is the same string, hence the same record here.    *)
(* The access token's payload also carries email, username and fullName,   *)
(* which no code of the repository reads back.                             *)
(***************************************************************************)
NoToken == [typ |-> "none", uid |-> 0, iat |-> 0, sig |-> "none"]

\* a request body without fields
NoBody ==
    [fullName |-> "<undefined>", email |-> "<undefined>",
     username |-> "<undefined>", password |-> "<undefined>"]

\* a request of a client: its handler (kind), the await it is at (pc), the
\* user it found, the refresh token it presented, the tokens it signed, the
\* status it answered (0 while unanswered), its body, the URLs its uploads
\* returned, the names of the files it carries (file; cover for the second
\* file of a registration), the request whose bytes it passed to the asset
\* host (0 while none), the error passed to next() and the number of
\* responses sent for it
Request(kind, pc) ==
    [kind |-> kind, pc |-> pc, uid |-> 0, presented |-> NoToken,
     accessToken |-> NoToken, refreshToken |-> NoToken, status |-> 0,
     body |-> NoBody, avatar |-> <<>>, coverImage |-> <<>>,
     file |-> "<undefined>", cover |-> "<undefined>", sent |-> 0,
     err |-> [statusCode |-> -1, message |-> ""], responses |-> 0]

\* a client that has sent nothing
Idle == Request("none", "idle")

\* an _id that names no user document (a well signed token of a removed user)
OrphanId == MaxUsers + 1

Workloads == {"session", "accounts", "assets"}

\* the clients whose requests are handled concurrently, and a client with no
\* request being handled
Clients == 1..MaxClients

\* the original names of the files that clients upload concurrently
UploadNames == {"f", "g"}

\* no file under ./public/temp holds the bytes of a request in flight
NoWrites == [name \in UploadNames |-> 0]

VARIABLES
    workload,    \* the workload of this behaviour
    db,          \* the database connection: "pending" | "connected" | "failed"
    proc,        \* start-up: "connecting" | "connected" | "starting" | "listening" | "exited"
    exitCode,    \* the code given to process.exit, -1 while the process runs
    listenCalled,\* app.listen has been called
    now,         \* the clock
    users,       \* the users collection: _id -> document
    assets,      \* public ids of the assets that exist on the asset host
    tempFiles,   \* the files under ./public/temp
    resp,        \* the response to the latest request
    videos,      \* the videos collection, in _id order: a sequence of documents
    subscriptions, \* the subscriptions collection: a sequence of documents
    inflight,    \* client -> the request of that client being handled step by step
    commits,     \* the refresh tokens written by user.save, in commit order
    written      \* file name -> the upload request whose bytes ./public/temp/<name> holds

vars == <<workload, db, proc, exitCode, listenCalled, now, users, assets, tempFiles, resp,
          videos, subscriptions, inflight, commits, written>>

(***************************************************************************)
(* jwt.sign / jwt.verify                                                   *)
(***************************************************************************)
Expiry(typ) == IF typ = "refresh" THEN REFRESH_TOKEN_EXPIRY ELSE ACCESS_TOKEN_EXPIRY

\* exp claim: iat + expiresIn
Exp(tok) == tok.iat + Expiry(tok.typ)

\* userSchema.methods.generateAccessToken
generateAccessToken(uid) ==
    [typ |-> "access", uid |-> uid, iat |-> now, sig |-> "ok"]

\* userSchema.methods.generateRefreshToken: jwt.sign({_id}, REFRESH_TOKEN_SECRET)
generateRefreshToken(uid) ==
    [typ |-> "refresh", uid |-> uid, iat |-> now, sig |-> "ok"]

\* jwt.verify(token, secret): "ok" or the message of the error it throws.
\* The signature is checked before the expiry.
jwtVerify(tok, secret) ==
    IF tok.sig # "ok" \/ tok.typ # secret THEN "invalid signature"
    ELSE IF now >= Exp(tok) THEN "jwt expired"
    ELSE "ok"

\* the refresh tokens stored in the users collection
StoredTokens == {users[u].refreshToken : u \in DOMAIN users} \ {NoToken}

\* a copy of a token with a signature that does not verify
Forged(tok) == [tok EXCEPT !.sig = "bad"]

\* the well signed tokens of kind typ that can exist by now: of a user of the
\* collection or of an _id that names no document, signed at some second
Signed(typ) ==
    [typ : {typ}, uid : (DOMAIN users) \cup {OrphanId}, iat : 0..now, sig : {"ok"}]

(***************************************************************************)
(* Errors.  An error is its statusCode (0: the error carries none, as a    *)
(* TypeError or a driver error) and its message.                           *)
(***************************************************************************)
\* new ApiError(statusCode, message)
ApiError(statusCode, message) == [statusCode |-> statusCode, message |-> message]

\* an error thrown by the runtime or a library: no statusCode property
PlainError(message) == [statusCode |-> 0, message |-> message]

NoError == [statusCode |-> -1, message |-> ""]

\* the outcome of an async handler: its promise fulfils or rejects with err
Fulfilled == [kind |-> "fulfilled", err |-> NoError]
Rejected(err) == [kind |-> "rejected", err |-> err]

(***************************************************************************)
(* asyncHandler: Promise.resolve(requestHandler(..)).catch(err => next(err)) *)
(* gives the calls of next the wrapper makes and whether a rejection is    *)
(* left unhandled.                                                         *)
(***************************************************************************)
\* a wrapper whose .catch drops the error instead of passing it to next
asyncHandler_swallows(outcome) ==
    [nextCalls |-> <<>>, unhandled |-> FALSE]

\* the wrapper without its .catch
asyncHandler_nocatch(outcome) ==
    [nextCalls |-> <<>>, unhandled |-> outcome.kind = "rejected"]

asyncHandler(outcome) ==
    [nextCalls |-> IF outcome.kind = "rejected" THEN <<outcome.err>> ELSE <<>>,
     unhandled |-> FALSE]

\* one asyncHandler-wrapped stage of a request, as recorded in the response
Stage(name, outcome) ==
    [name |-> name, outcome |-> outcome, wrapper |-> asyncHandler(outcome)]

(***************************************************************************)
(* The application stack of app.js, in registration order, and express's   *)
(* error dispatch: an error raised in a layer goes to the first            *)
(* error-handling middleware registered after that layer, and to express's *)
(* built-in final handler when there is none.                              *)
(***************************************************************************)
AppStack ==
    <<"cors", "json", "urlencoded", "static", "cookieParser",
      "errorMiddleware", "userRouter">>

LayerIndex(name) == CHOOSE i \in 1..Len(AppStack) : AppStack[i] = name

\* the handler an error raised inside the user router reaches
ErrorHandlerFor(layer) ==
    IF \E i \in 1..Len(AppStack) :
          i > LayerIndex(layer) /\ AppStack[i] = "errorMiddleware"
    THEN "errorMiddleware"
    ELSE "finalhandler"

\* finalhandler: err.status / err.statusCode when in 400..599, else 500
FinalHandlerStatus(err) ==
    IF err.statusCode >= 400 /\ err.statusCode <= 599 THEN err.statusCode ELSE 500

\* the error middleware of app.js: err.statusCode || 500
ErrorMiddlewareStatus(err) ==
    IF err.statusCode # 0 THEN err.statusCode ELSE 500

\* the error middleware of app.js: err.message || "Internal Server Error"
ErrorMiddlewareMessage(err) ==
    IF err.message # "" THEN err.message ELSE "Internal Server Error"

(***************************************************************************)
(* Responses.                                                              *)
(***************************************************************************)
\* res.clearCookie(name)
ClearedCookie == [typ |-> "cleared", uid |-> 0, iat |-> 0, sig |-> "none"]

\* what a controller sends: res.status(status).cookie(..).json(new ApiResponse(..))
Res(status, bodyStatusCode, message) ==
    [status |-> status, bodyStatusCode |-> bodyStatusCode, message |-> message,
     accessToken |-> NoToken, refreshToken |-> NoToken,
     cookieAccess |-> NoToken, cookieRefresh |-> NoToken, overwritten |-> NoToken,
     user |-> 0, data |-> <<>>, userFields |-> {}]

\* the fields of a user document
UserFields ==
    {"_id", "username", "email", "fullName", "avatar", "coverImage",
     "watchHistory", "password", "refreshToken"}

\* query.select("-a -b"): the document without the excluded fields
Select(excluded) == UserFields \ excluded

\* ApiResponse's constructor: this.sucess = statusCode < 400
sucess(statusCode) == statusCode < 400

NoRes == Res(0, 0, "")

\* the response before any request.  stages: the asyncHandler-wrapped stages
\* of the route that ran; overwritten: the stored refresh token that this
\* request overwrote (login, refresh) or removed (logout); user: the _id of the
\* user the response is about (req.user, or the user logged in), 0 when none;
\* data: the documents of an aggregation result sent as the body's data;
\* userFields: the fields of the user document placed in the body
NoResp ==
    [status |-> 0, format |-> "none", message |-> "",
     bodyStatusCode |-> 0, accessToken |-> NoToken, refreshToken |-> NoToken,
     cookieAccess |-> NoToken, cookieRefresh |-> NoToken, overwritten |-> NoToken,
     user |-> 0, data |-> <<>>, userFields |-> {}, stages |-> <<>>]

\* the response a controller sent itself
SentResponse(res, stages) ==
    [status |-> res.status, format |-> "ApiResponse",
     message |-> res.message, bodyStatusCode |-> res.bodyStatusCode,
     accessToken |-> res.accessToken, refreshToken |-> res.refreshToken,
     cookieAccess |-> res.cookieAccess, cookieRefresh |-> res.cookieRefresh,
     overwritten |-> res.overwritten, user |-> res.user, data |-> res.data,
     userFields |-> res.userFields, stages |-> stages]

\* the response to an error passed to next: by the error middleware
\* ({success:false, message, statusCode} as JSON) when the error reaches it,
\* by express's final handler (an HTML page) otherwise
ErrorResponse(err, stages) ==
    IF ErrorHandlerFor("userRouter") = "errorMiddleware"
    THEN [NoResp EXCEPT !.status = ErrorMiddlewareStatus(err),
              !.format = "errorJson", !.message = ErrorMiddlewareMessage(err),
              !.bodyStatusCode = ErrorMiddlewareStatus(err), !.stages = stages]
    ELSE [NoResp EXCEPT !.status = FinalHandlerStatus(err),
              !.format = "html", !.message = err.message, !.stages = stages]

\* the request is never answered
NoResponse(stages) == [NoResp EXCEPT !.format = "unanswered", !.stages = stages]

\* the response of a request whose asyncHandler-wrapped stages ran as `stages`,
\* the last of them having sent `res` if it fulfilled
Finish(stages, res) ==
    LET last == stages[Len(stages)]
    IN  IF last.outcome.kind = "fulfilled" THEN SentResponse(res, stages)
        ELSE IF last.wrapper.nextCalls = <<>> THEN NoResponse(stages)
        ELSE ErrorResponse(last.wrapper.nextCalls[1], stages)

(***************************************************************************)
(* The stored state a handler reads and writes, and a handler's result.    *)
(***************************************************************************)
Store ==
    [users |-> users, assets |-> assets, tempFiles |-> tempFiles,
     videos |-> videos, subscriptions |-> subscriptions]

\* the handler throws err (its promise rejects), the store being st by then
Throw(err, st) == [out |-> Rejected(err), res |-> NoRes, st |-> st]

\* the handler sends res and returns
Send(res, st) == [out |-> Fulfilled, res |-> res, st |-> st]

(***************************************************************************)
(* The user model.                                                         *)
(***************************************************************************)
\* bcrypt.hash of the pre-save hook
Hash(password) == <<"bcrypt", password>>

\* a comparison that accepts every password
isPasswordCorrect_any(doc, password) == TRUE

\* userSchema.methods.isPasswordCorrect: bcrypt.compare(password, this.password)
isPasswordCorrect(doc, password) == doc.password = Hash(password)

\* an asset's URL on the host, and the URL "" of no asset
Url(publicId) == <<"http://res.cloudinary.com", publicId>>
NoUrl == <<>>

\* getPublicIdFromUrl: the last path segment without its extension
getPublicIdFromUrl(url) == IF url = NoUrl THEN 0 ELSE url[2]

\* a lookup that finds no document
FindOneByUsernameOrEmail_none(us, username, email) == 0

\* User.findOne({$or: [{username}, {email}]}): the first document (in _id
\* order) whose username or email equals the given one; 0 when there is none.
\* An undefined operand matches no document.
FindOneByUsernameOrEmail(us, username, email) ==
    LET hits == {u \in DOMAIN us :
                    \/ (username # Missing /\ us[u].username = username)
                    \/ (email # Missing /\ us[u].email = email)}
    IN  IF hits = {} THEN 0 ELSE CHOOSE u \in hits : \A v \in hits : u <= v

\* the unique indexes on username and email: a write that would give
\* document `self` the username or email of another document is rejected
\* a users collection without unique indexes
UniqueIndexViolation_off(us, self, username, email) == FALSE

UniqueIndexViolation(us, self, username, email) ==
    \E u \in DOMAIN us \ {self} : us[u].username = username \/ us[u].email = email

(***************************************************************************)
(* The asset host (cloudinary.js) and the upload middleware (multer).      *)
(***************************************************************************)
\* the public ids the user documents refer to
Referenced(us) ==
    {getPublicIdFromUrl(us[u].avatar) : u \in DOMAIN us}
    \cup {getPublicIdFromUrl(us[u].coverImage) : u \in DOMAIN us}

\* the public id the host gives a new asset: one that names no asset, past or
\* present, that a document still refers to
NewPublicId(st) ==
    CHOOSE i \in 1..(MaxAssets + 2 * MaxUsers + 1) :
        /\ i \notin st.assets \cup Referenced(st.users)
        /\ \A j \in 1..(i - 1) : j \in st.assets \cup Referenced(st.users)

\* multer's diskStorage: each uploaded file is written to
\* ./public/temp/<originalname>
MulterSave(st, files) == [st EXCEPT !.tempFiles = @ \cup (files \ {Missing})]

\* the value null
Null == [isNull |-> TRUE, url |-> NoUrl]

\* uploadOnCloudinary(localFilePath): what it returns (ret), whether it throws,
\* and the store afterwards.  The host takes the file when it is reachable
\* (hostOk), has room for one more asset and the local file exists; when the
\* upload is rejected the catch block unlinks the local file, and unlinkSync
\* throws when there is no such file.
uploadOnCloudinary(st, localFilePath, hostOk) ==
    IF localFilePath = Missing
    THEN [ret |-> Null, threw |-> FALSE, st |-> st]
    ELSE IF localFilePath \in st.tempFiles /\ hostOk
                /\ Cardinality(st.assets) < MaxAssets
    THEN [ret |-> [isNull |-> FALSE, url |-> Url(NewPublicId(st))],
          threw |-> FALSE,
          st |-> [st EXCEPT !.assets = @ \cup {NewPublicId(st)}]]
    ELSE IF localFilePath \in st.tempFiles
    THEN [ret |-> Null, threw |-> FALSE,
          st |-> [st EXCEPT !.tempFiles = @ \ {localFilePath}]]
    ELSE [ret |-> Null, threw |-> TRUE, st |-> st]

\* deleteFromCloudinary(publicURL): destroys the asset named by the URL; it
\* rethrows the host's error (an unreachable host, or no public id for "")
deleteFromCloudinary(st, publicURL, hostOk) ==
    IF hostOk /\ publicURL # NoUrl
    THEN [threw |-> FALSE,
          st |-> [st EXCEPT !.assets = @ \ {getPublicIdFromUrl(publicURL)}]]
    ELSE [threw |-> TRUE, st |-> st]

(***************************************************************************)
(* The controller.                                                         *)
(***************************************************************************)
\* a save that keeps a stored token signed later than the one being saved
saveRefreshToken_keepsNewer(us, userId, refreshToken) ==
    IF us[userId].refreshToken # NoToken /\ us[userId].refreshToken.iat > refreshToken.iat
    THEN us
    ELSE [us EXCEPT ![userId].refreshToken = refreshToken]

\* user.refreshToken = refreshToken; user.save(): the save writes the modified
\* path, whatever the document holds by then
saveRefreshToken(us, userId, refreshToken) ==
    [us EXCEPT ![userId].refreshToken = refreshToken]

\* generateAccessAndRefereshTokens(userId): signs both tokens, overwrites the
\* document's refreshToken and saves; any error becomes ApiError 500
generateAccessAndRefereshTokens(st, userId, saveOk) ==
    IF saveOk
    THEN [ok |-> TRUE,
          accessToken |-> generateAccessToken(userId),
          refreshToken |-> generateRefreshToken(userId),
          overwritten |-> st.users[userId].refreshToken,
          st |-> [st EXCEPT
                    !.users = saveRefreshToken(@, userId, generateRefreshToken(userId))]]
    ELSE [ok |-> FALSE, accessToken |-> NoToken, refreshToken |-> NoToken,
          overwritten |-> NoToken, st |-> st]

GenerateError ==
    ApiError(500, "Something went wrong while generating referesh and access token")

\* registerUser, after upload.fields([avatar, coverImage]) has stored the files
registerUser(st, fullName, email, username, password, avatarFile, coverFile, avatarUp, coverUp) ==
    IF \E field \in {fullName, email, username, password} :
            field # Missing /\ Trim(field) = ""
    THEN Throw(ApiError(400, "All fields are required"), st)
    ELSE IF FindOneByUsernameOrEmail(st.users, username, email) # 0
    THEN Throw(ApiError(409, "User with email or username already exists"), st)
    ELSE IF avatarFile = Missing
    THEN \* path.resolve(null) throws
         Throw(PlainError("The \"paths[0]\" argument must be of type string. Received null"), st)
    ELSE IF coverFile = Missing
    THEN \* path.resolve(undefined) throws
         Throw(PlainError("The \"paths[0]\" argument must be of type string. Received undefined"), st)
    ELSE
    LET avatar == uploadOnCloudinary(st, avatarFile, avatarUp)
        coverImage == uploadOnCloudinary(avatar.st, coverFile, coverUp)
        id == Cardinality(DOMAIN st.users) + 1
        doc == [username |-> ToLowerCase(username), email |-> email,
                fullName |-> fullName, password |-> Hash(password),
                refreshToken |-> NoToken, avatar |-> avatar.ret.url,
                coverImage |-> coverImage.ret.url, watchHistory |-> <<>>]
    IN  IF avatar.threw
        THEN Throw(PlainError("ENOENT: no such file or directory, unlink"), avatar.st)
        ELSE IF coverImage.threw
        THEN Throw(PlainError("ENOENT: no such file or directory, unlink"), coverImage.st)
        ELSE IF avatar.ret.isNull
        THEN Throw(ApiError(400, "Avatar file is not uploaded"), coverImage.st)
        ELSE IF username = Missing
        THEN Throw(PlainError("Cannot read properties of undefined (reading 'toLowerCase')"),
                   coverImage.st)
        ELSE IF Missing \in {fullName, email, password}
        THEN Throw(PlainError("User validation failed: path is required"), coverImage.st)
        ELSE IF UniqueIndexViolation(st.users, id, ToLowerCase(username), email)
        THEN Throw(PlainError("E11000 duplicate key error"), coverImage.st)
        ELSE Send([Res(201, 200, "User registered Successfully") EXCEPT
                      !.userFields = Select({"password", "refreshToken"})],
                  [coverImage.st EXCEPT !.users = @ @@ (id :> doc)])

\* loginUser
loginUser(st, email, username, password, saveOk) ==
    IF Falsy(username) /\ Falsy(email)
    THEN Throw(ApiError(400, "username or email is required"), st)
    ELSE
    LET uid == FindOneByUsernameOrEmail(st.users, username, email)
        gen == generateAccessAndRefereshTokens(st, uid, saveOk)
    IN  IF uid = 0
        THEN \* user._id is read before the null check
             Throw(PlainError("Cannot read properties of null (reading '_id')"), st)
        ELSE IF password = Missing
        THEN \* bcrypt.compare(undefined, hash) rejects
             Throw(PlainError("data and hash arguments required"), st)
        ELSE IF ~isPasswordCorrect(st.users[uid], password)
        THEN Throw(ApiError(401, "Invalid user credentials, Wrong Password!!!!!!"), st)
        ELSE IF ~gen.ok
        THEN Throw(GenerateError, st)
        ELSE Send([Res(200, 200, "User logged In Successfully") EXCEPT
                      !.accessToken = gen.accessToken,
                      !.refreshToken = gen.refreshToken,
                      !.cookieAccess = gen.accessToken,
                      !.cookieRefresh = gen.refreshToken,
                      !.overwritten = gen.overwritten,
                      !.userFields = Select({"password", "refreshToken"}),
                      !.user = uid],
                  gen.st)

\* logoutUser that leaves the stored refresh token in place
logoutUser_keepsToken(st, uid) ==
    Send([Res(200, 200, "User logged Out") EXCEPT
              !.cookieAccess = ClearedCookie, !.cookieRefresh = ClearedCookie,
              !.overwritten = st.users[uid].refreshToken],
         st)

\* logoutUser: $unset of the refreshToken of req.user
logoutUser(st, uid) ==
    Send([Res(200, 200, "User logged Out") EXCEPT
              !.cookieAccess = ClearedCookie, !.cookieRefresh = ClearedCookie,
              !.overwritten = st.users[uid].refreshToken],
         [st EXCEPT !.users[uid].refreshToken = NoToken])

\* the comparison left out: every verified token of an existing user passes
TokenIsNotTheStoredOne_never(doc, incomingRefreshToken) == FALSE

\* incomingRefreshToken !== user?.refreshToken
TokenIsNotTheStoredOne(doc, incomingRefreshToken) ==
    incomingRefreshToken # doc.refreshToken

\* refreshAccessToken: the token comes from the cookie or else the body; every
\* error thrown inside the try block is rethrown as ApiError 401
refreshAccessToken(st, cookieTok, bodyTok, saveOk) ==
    LET incomingRefreshToken == IF cookieTok # NoToken THEN cookieTok ELSE bodyTok
        gen == generateAccessAndRefereshTokens(st, incomingRefreshToken.uid, saveOk)
    IN  IF incomingRefreshToken = NoToken
        THEN Throw(ApiError(401, "unauthorized request"), st)
        ELSE IF jwtVerify(incomingRefreshToken, "refresh") # "ok"
        THEN Throw(ApiError(401, jwtVerify(incomingRefreshToken, "refresh")), st)
        ELSE IF incomingRefreshToken.uid \notin DOMAIN st.users
        THEN Throw(ApiError(401, "Invalid refresh token"), st)
        ELSE IF TokenIsNotTheStoredOne(st.users[incomingRefreshToken.uid],
                                       incomingRefreshToken)
        THEN Throw(ApiError(401, "Refresh token is expired or used"), st)
        ELSE IF ~gen.ok
        THEN Throw(ApiError(401, GenerateError.message), st)
        ELSE Send([Res(200, 200, "Access token refreshed") EXCEPT
                      !.accessToken = gen.accessToken,
                      !.refreshToken = gen.refreshToken,
                      !.cookieAccess = gen.accessToken,
                      !.cookieRefresh = gen.refreshToken,
                      !.overwritten = gen.overwritten,
                      !.user = incomingRefreshToken.uid],
                  gen.st)

\* changeCurrentPassword that also ends the user's session
changeCurrentPassword_revokes(st, uid, oldPassword, newPassword) ==
    IF oldPassword = Missing \/ newPassword = Missing
            \/ ~isPasswordCorrect(st.users[uid], oldPassword)
    THEN Throw(ApiError(400, "Invalid old password"), st)
    ELSE Send(Res(200, 200, "Password changed successfully"),
              [st EXCEPT !.users[uid].password = Hash(newPassword),
                         !.users[uid].refreshToken = NoToken])

\* a changeCurrentPassword that does not compare the old password
changeCurrentPassword_unchecked(st, uid, oldPassword, newPassword) ==
    IF oldPassword = Missing \/ newPassword = Missing
    THEN Throw(PlainError("data and hash arguments required"), st)
    ELSE Send(Res(200, 200, "Password changed successfully"),
              [st EXCEPT !.users[uid].password = Hash(newPassword)])

\* changeCurrentPassword
changeCurrentPassword(st, uid, oldPassword, newPassword) ==
    IF oldPassword = Missing
    THEN Throw(PlainError("data and hash arguments required"), st)
    ELSE IF ~isPasswordCorrect(st.users[uid], oldPassword)
    THEN Throw(ApiError(400, "Invalid old password"), st)
    ELSE IF newPassword = Missing
    THEN \* the pre-save hook hashes undefined
         Throw(PlainError("data and salt arguments required"), st)
    ELSE Send(Res(200, 200, "Password changed successfully"),
              [st EXCEPT !.users[uid].password = Hash(newPassword)])

\* getCurrentUser
getCurrentUser(st, uid) ==
    Send([Res(200, 200, "User fetched successfully") EXCEPT
            !.userFields = Select({"password", "refreshToken"})], st)

\* updateAccountDetails: findByIdAndUpdate($set: {fullName, email})
updateAccountDetails(st, uid, fullName, email) ==
    IF Falsy(fullName) \/ Falsy(email)
    THEN Throw(ApiError(400, "All fields are required"), st)
    ELSE IF UniqueIndexViolation(st.users, uid, st.users[uid].username, email)
    THEN Throw(PlainError("E11000 duplicate key error"), st)
    ELSE Send([Res(200, 200, "Account details updated successfully") EXCEPT
                  !.userFields = Select({"password"})],
              [st EXCEPT !.users[uid].fullName = fullName,
                         !.users[uid].email = email])

\* updateUserAvatar / updateUserCoverImage (field is "avatar" or "coverImage"),
\* after upload.single(field) has stored the file: the old asset is destroyed
\* first, then the new file is uploaded, then the document is updated
updateUserImage(st, uid, field, file, deleteOk, uploadOk) ==
    IF file = Missing
    THEN Throw(ApiError(400, IF field = "avatar" THEN "Avatar file is missing"
                             ELSE "Cover image file is missing"), st)
    ELSE
    LET deleted == deleteFromCloudinary(st, st.users[uid][field], deleteOk)
        uploaded == uploadOnCloudinary(deleted.st, file, uploadOk)
    IN  IF deleted.threw
        THEN Throw(PlainError("Error deleting from cloudinary"), deleted.st)
        ELSE IF uploaded.threw
        THEN Throw(PlainError("ENOENT: no such file or directory, unlink"), uploaded.st)
        ELSE IF uploaded.ret.isNull
        THEN \* .url is read of null
             Throw(PlainError("Cannot read properties of null (reading 'url')"),
                   uploaded.st)
        ELSE Send([Res(200, 200, IF field = "avatar"
                                 THEN "Avatar image updated successfully"
                                 ELSE "Cover image updated successfully") EXCEPT
                      !.userFields = Select({"password"})],
                  [uploaded.st EXCEPT !.users[uid][field] = uploaded.ret.url])

\* a $lookup that joins every document of the collection
Lookup_all(coll, foreignField, value) == coll

\* $lookup with a scalar localField: the documents of the collection whose
\* foreignField equals the value, in the order of the collection
Lookup(coll, foreignField, value) ==
    SelectSeq(coll, LAMBDA d : d[foreignField] = value)

\* $lookup with an array localField: the documents of the collection whose
\* foreignField equals some element of the array, each once, in the order of
\* the collection
LookupIn(coll, foreignField, values) ==
    SelectSeq(coll, LAMBDA d : \E i \in DOMAIN values : d[foreignField] = values[i])

\* the inner pipeline's $project of an owner: fullName, username, avatar (and
\* _id, which $project keeps unless excluded)
OwnerProjection(st, id) ==
    [_id |-> id, fullName |-> st.users[id].fullName,
     username |-> st.users[id].username, avatar |-> st.users[id].avatar]

\* $first of an empty owner array: the field is missing
NoOwner == [_id |-> 0, fullName |-> Missing, username |-> Missing, avatar |-> NoUrl]

\* getUserChannelProfile: $match on the lower-cased username parameter, the
\* two $lookup stages on subscriptions, $addFields, $project; channel[0]
getUserChannelProfile(st, uid, username) ==
    LET channel == {c \in DOMAIN st.users : st.users[c].username = ToLowerCase(username)}
        c == CHOOSE m \in channel : \A o \in channel : m <= o
        subscribers == Lookup(st.subscriptions, "channel", c)
        subscribedTo == Lookup(st.subscriptions, "subscriber", c)
    IN  IF Falsy(Trim(username))
        THEN Throw(ApiError(400, "username is missing"), st)
        ELSE IF channel = {}
        THEN Throw(ApiError(404, "channel does not exists"), st)
        ELSE Send([Res(200, 200, "User channel fetched successfully") EXCEPT
                     !.userFields = {"_id", "fullName", "username", "avatar",
                                     "coverImage", "email"},
                     !.data = <<[_id |-> c,
                                 fullName |-> st.users[c].fullName,
                                 username |-> st.users[c].username,
                                 subscribersCount |-> Len(subscribers),
                                 channelsSubscribedToCount |-> Len(subscribedTo),
                                 isSubscribed |->
                                    \E i \in DOMAIN subscribers :
                                        subscribers[i].subscriber = uid,
                                 avatar |-> st.users[c].avatar,
                                 coverImage |-> st.users[c].coverImage,
                                 email |-> st.users[c].email]>>],
                  st)

\* getWatchHistory: $match on req.user._id, $lookup of watchHistory in videos
\* with the owner of each video joined and reduced to its first element;
\* user[0].watchHistory
getWatchHistory(st, uid) ==
    LET watchHistory == LookupIn(st.videos, "_id", st.users[uid].watchHistory)
    IN  Send([Res(200, 200, "Watch history fetched successfully") EXCEPT
                !.data = [i \in DOMAIN watchHistory |->
                            [_id |-> watchHistory[i]._id,
                             owner |-> IF watchHistory[i].owner \in DOMAIN st.users
                                       THEN OwnerProjection(st, watchHistory[i].owner)
                                       ELSE NoOwner]]],
             st)

(***************************************************************************)
(* verifyJWT (auth.middleware): the token comes from the accessToken cookie *)
(* or else the Authorization header; every error is rethrown as ApiError   *)
(* 401; on success req.user is the user the token names and next() runs    *)
(* the rest of the route.                                                  *)
(***************************************************************************)
\* verifyJWT that lets a request without a verified token through as user 1
verifyJWT_open(cookieTok, headerTok) ==
    LET token == IF cookieTok # NoToken THEN cookieTok ELSE headerTok
    IN  IF token.uid \in DOMAIN users
        THEN [out |-> Fulfilled, uid |-> token.uid]
        ELSE [out |-> Rejected(ApiError(401, "Invalid Access Token")), uid |-> 0]

\* a verifyJWT that also requires the user to hold a stored refresh token
verifyJWT_needsSession(cookieTok, headerTok) ==
    LET token == IF cookieTok # NoToken THEN cookieTok ELSE headerTok
    IN  IF token = NoToken \/ jwtVerify(token, "access") # "ok"
            \/ token.uid \notin DOMAIN users
        THEN [out |-> Rejected(ApiError(401, "Invalid Access Token")), uid |-> 0]
        ELSE IF users[token.uid].refreshToken = NoToken
        THEN [out |-> Rejected(ApiError(401, "Invalid Access Token")), uid |-> 0]
        ELSE [out |-> Fulfilled, uid |-> token.uid]

verifyJWT(cookieTok, headerTok) ==
    LET token == IF cookieTok # NoToken THEN cookieTok ELSE headerTok
    IN  IF token = NoToken
        THEN [out |-> Rejected(ApiError(401, "Unauthorized request")), uid |-> 0]
        ELSE IF jwtVerify(token, "access") # "ok"
        THEN [out |-> Rejected(ApiError(401, jwtVerify(token, "access"))), uid |-> 0]
        ELSE IF token.uid \notin DOMAIN users
        THEN [out |-> Rejected(ApiError(401, "Invalid Access Token")), uid |-> 0]
        ELSE [out |-> Fulfilled, uid |-> token.uid]


(***************************************************************************)
(* The inputs of the requests, by workload.                                *)
(***************************************************************************)
\* a current, well signed access token of each user, sent as a cookie; or none
PlainCredentials ==
    {<<NoToken, NoToken>>}
    \cup {<<generateAccessToken(u), NoToken>> : u \in DOMAIN users}

\* the <<accessToken cookie, Authorization header>> pairs a request carries:
\* nothing, a signed access token (current or expired), a forged one or a
\* refresh token in the cookie, a current token in the header, or a forged
\* cookie next to a good header
Credentials ==
    IF workload # "session" THEN PlainCredentials
    ELSE {<<NoToken, NoToken>>}
         \cup {<<c, NoToken>> : c \in Signed("access") \cup StoredTokens}
         \cup {<<Forged(generateAccessToken(u)), NoToken>> : u \in DOMAIN users}
         \cup {<<NoToken, generateAccessToken(u)>> : u \in DOMAIN users}
         \cup {<<Forged(generateAccessToken(u)), generateAccessToken(u)>> :
                    u \in DOMAIN users}

\* the <<refreshToken cookie, body.refreshToken>> pairs of a refresh request:
\* nothing, a signed refresh token, a forged copy of a stored one or an access
\* token in the cookie, a stored token in the body, or a forged cookie next to
\* the stored token in the body
RefreshCredentials ==
    IF workload # "session"
    THEN {<<NoToken, NoToken>>} \cup {<<t, NoToken>> : t \in StoredTokens}
    ELSE {<<NoToken, NoToken>>}
         \cup {<<c, NoToken>> : c \in Signed("refresh")}
         \cup {<<Forged(t), NoToken>> : t \in StoredTokens}
         \cup {<<generateAccessToken(u), NoToken>> : u \in DOMAIN users}
         \cup {<<NoToken, t>> : t \in StoredTokens}
         \cup {<<Forged(t), t>> : t \in StoredTokens}

\* whether user.save succeeds in generateAccessAndRefereshTokens
SaveOutcomes == IF workload = "session" THEN BOOLEAN ELSE {TRUE}

\* a text field that is blank after trimming, or absent
Abnormal(s) == s = Missing \/ Trim(s) = ""

\* the register bodies of two clients
BodyA == [fullName |-> "n", email |-> "x", username |-> "a", password |-> "p"]
BodyB == [fullName |-> "n", email |-> "y", username |-> "b", password |-> "p"]

\* the bodies of a register request.  accounts: every body in which at most
\* one field is blank or absent; otherwise the first client's body, and the
\* second client's once the first has registered
RegisterBodies ==
    IF workload = "registering"
    THEN [fullName : FullNames, email : Emails, username : Usernames, password : {"p"}]
    ELSE IF workload = "accounts"
    THEN {b \in [fullName : FullNames \cup {" ", Missing},
                 email : Emails \cup {"", Missing},
                 username : Usernames \cup {"", Missing},
                 password : {"p", "", Missing}] :
            Cardinality({f \in {"fullName", "email", "username", "password"} :
                            Abnormal(b[f])}) <= 1}
    ELSE IF workload = "session" /\ DOMAIN users # {}
    THEN {BodyA, BodyB}
    ELSE {BodyA}

\* the files of a register request, <<avatar, coverImage>> original names,
\* and whether the host takes each upload
RegisterFiles ==
    IF workload = "assets"
    THEN {<<"f", "f">>, <<"f", Missing>>, <<Missing, Missing>>}
    ELSE {<<"f", "f">>}

HostOutcomes == IF workload \in {"assets", "uploading"} THEN BOOLEAN ELSE {TRUE}

\* the bodies of a login request
LoginBodies ==
    IF workload = "accounts"
    THEN [email : Emails \cup {Missing}, username : Usernames \cup {"", Missing},
          password : {"p", "q"}]
    ELSE IF workload = "session"
    THEN [email : {Missing}, username : {"a", "b"}, password : Passwords \cup {Missing}]
    ELSE [email : {Missing}, username : {"a"}, password : {"p"}]

\* <<oldPassword, newPassword>> of a change-password request
PasswordChanges ==
    IF workload = "session"
    THEN (Passwords \cup {Missing}) \X (Passwords \cup {Missing})
    ELSE {<<"p", "p">>}

\* <<fullName, email>> of an update-account request of user uid
AccountUpdates(uid) ==
    IF workload = "registering" THEN FullNames \X Emails
    ELSE IF workload = "accounts"
    THEN (FullNames \cup {"", Missing}) \X (Emails \cup {"", Missing})
    ELSE {<<users[uid].fullName, users[uid].email>>}

\* the file of an avatar / cover-image request
ImageFiles == IF workload \in {"assets", "answering"} THEN FileNames \cup {Missing} ELSE {Missing}

\* the :username parameter of a channel request
ChannelNames ==
    IF workload \in {"accounts", "history", "channels"} THEN Usernames \cup {" "}
    ELSE {"a"}

(***************************************************************************)
(* Start-up (index.js, db/index.js).                                       *)
(***************************************************************************)
Init ==
    /\ workload \in Workloads
    /\ db = "pending"
    /\ proc = "connecting"
    /\ exitCode = -1
    /\ listenCalled = FALSE
    /\ now = 0
    /\ users = <<>>
    /\ assets = {}
    /\ tempFiles = {}
    /\ resp = NoResp
    /\ videos = <<>>
    /\ subscriptions = <<>>
    /\ inflight = [c \in Clients |-> Idle]
    /\ commits = <<>>
    /\ written = NoWrites

\* mongoose.connect resolves: connectDB returns the connection
ConnectDBResolves ==
    /\ proc = "connecting"
    /\ proc' = "connected"
    /\ db' = "connected"
    /\ UNCHANGED <<written, videos, subscriptions, inflight, commits, workload, exitCode, listenCalled, now, users, assets, tempFiles, resp>>

\* mongoose.connect rejects: connectDB's catch block calls process.exit(1)
ConnectDBRejects ==
    /\ proc = "connecting"
    /\ proc' = "exited"
    /\ db' = "failed"
    /\ exitCode' = 1
    /\ UNCHANGED <<written, videos, subscriptions, inflight, commits, workload, listenCalled, now, users, assets, tempFiles, resp>>

\* app.listen called without waiting for connectDB
ThenCallbackRuns_nowait == proc \in {"connecting", "connected"} /\ ~listenCalled

\* the callback given to connectDB().then runs once connectDB has resolved
ThenCallbackRuns == proc = "connected"

\* connectDB().then(() => app.listen(PORT, ..))
AppListen ==
    /\ ThenCallbackRuns
    /\ listenCalled' = TRUE
    /\ proc' = IF proc = "connected" THEN "starting" ELSE proc
    /\ UNCHANGED <<written, videos, subscriptions, inflight, commits, workload, db, exitCode, now, users, assets, tempFiles, resp>>

\* the server emits 'listening'
ServerListening ==
    /\ proc = "starting"
    /\ proc' = "listening"
    /\ UNCHANGED <<written, videos, subscriptions, inflight, commits, workload, db, exitCode, listenCalled, now, users, assets, tempFiles, resp>>

\* the server emits 'error' (the port is in use): process.exit(1)
ServerError ==
    /\ proc = "starting"
    /\ proc' = "exited"
    /\ exitCode' = 1
    /\ UNCHANGED <<written, videos, subscriptions, inflight, commits, workload, db, listenCalled, now, users, assets, tempFiles, resp>>

\* a second passes
Tick ==
    /\ proc = "listening"
    /\ workload \in {"session", "concurrent"}
    /\ now < MaxTime
    /\ now' = now + 1
    /\ UNCHANGED <<written, videos, subscriptions, inflight, commits, workload, db, proc, exitCode, listenCalled, users, assets, tempFiles, resp>>

(***************************************************************************)
(* The routes of the user router (mounted at /api/v1/users).               *)
(***************************************************************************)
\* the store after a handler, and the response of the request
Commit(stages, r) ==
    /\ resp' = Finish(stages, r.res)
    /\ users' = r.st.users
    /\ assets' = r.st.assets
    /\ tempFiles' = r.st.tempFiles
    /\ UNCHANGED <<written, videos, subscriptions, inflight, commits, workload, db, proc, exitCode, listenCalled, now>>

\* the response of a route without verifyJWT whose controller ran with result r
Answer(name, r) == Finish(<<Stage(name, r.out)>>, r.res)

\* a route without verifyJWT: the controller alone
Public(name, r) ==
    /\ Cardinality(DOMAIN r.st.users) <= MaxUsers
    /\ Commit(<<Stage(name, r.out)>>, r)

\* verifyJWT rejected the request: the rest of the route does not run
Unauthorized(auth) ==
    /\ resp' = Finish(<<Stage("verifyJWT", auth.out)>>, NoRes)
    /\ UNCHANGED <<written, videos, subscriptions, inflight, commits, workload, db, proc, exitCode, listenCalled, now, users, assets, tempFiles>>

\* verifyJWT called next(): the controller ran as req.user with result r
Authorized(name, auth, r) ==
    Commit(<<Stage("verifyJWT", auth.out), Stage(name, r.out)>>,
           [r EXCEPT !.res.user = auth.uid])

\* POST /register: upload.fields([avatar, coverImage]), registerUser
RegisterUser ==
    /\ proc = "listening"
    /\ \E b \in RegisterBodies, files \in RegisterFiles,
          avatarUp \in HostOutcomes, coverUp \in HostOutcomes :
            Public("registerUser",
                   registerUser(MulterSave(Store, {files[1], files[2]}),
                                b.fullName, b.email, b.username, b.password,
                                files[1], files[2], avatarUp, coverUp))

\* POST /login: loginUser
LoginUser ==
    /\ proc = "listening"
    /\ \E b \in LoginBodies, saveOk \in SaveOutcomes :
            Public("loginUser",
                   loginUser(Store, b.email, b.username, b.password, saveOk))

\* POST /refresh-token: refreshAccessToken
RefreshAccessToken ==
    /\ proc = "listening"
    /\ \E cred \in RefreshCredentials, saveOk \in SaveOutcomes :
            Public("refreshAccessToken",
                   refreshAccessToken(Store, cred[1], cred[2], saveOk))

\* POST /logout: verifyJWT, logoutUser
LogoutUser ==
    /\ proc = "listening"
    /\ \E cred \in Credentials :
        LET auth == verifyJWT(cred[1], cred[2])
        IN  IF auth.out.kind = "rejected" THEN Unauthorized(auth)
            ELSE Authorized("logoutUser", auth, logoutUser(Store, auth.uid))

\* POST /change-password: verifyJWT, changeCurrentPassword
ChangeCurrentPassword ==
    /\ proc = "listening"
    /\ \E cred \in Credentials :
        LET auth == verifyJWT(cred[1], cred[2])
        IN  IF auth.out.kind = "rejected" THEN Unauthorized(auth)
            ELSE \E pw \in PasswordChanges :
                    Authorized("changeCurrentPassword", auth,
                        changeCurrentPassword(Store, auth.uid, pw[1], pw[2]))

\* GET /current-user: verifyJWT, getCurrentUser
GetCurrentUser ==
    /\ proc = "listening"
    /\ \E cred \in Credentials :
        LET auth == verifyJWT(cred[1], cred[2])
        IN  IF auth.out.kind = "rejected" THEN Unauthorized(auth)
            ELSE Authorized("getCurrentUser", auth, getCurrentUser(Store, auth.uid))

\* PATCH /update-account: verifyJWT, updateAccountDetails
UpdateAccountDetails ==
    /\ proc = "listening"
    /\ \E cred \in Credentials :
        LET auth == verifyJWT(cred[1], cred[2])
        IN  IF auth.out.kind = "rejected" THEN Unauthorized(auth)
            ELSE \E upd \in AccountUpdates(auth.uid) :
                    Authorized("updateAccountDetails", auth,
                        updateAccountDetails(Store, auth.uid, upd[1], upd[2]))

\* PATCH /avatar: verifyJWT, upload.single("avatar"), updateUserAvatar
UpdateUserAvatar ==
    /\ proc = "listening"
    /\ \E cred \in Credentials :
        LET auth == verifyJWT(cred[1], cred[2])
        IN  IF auth.out.kind = "rejected" THEN Unauthorized(auth)
            ELSE \E file \in ImageFiles,
                    deleteOk \in HostOutcomes, uploadOk \in HostOutcomes :
                    Authorized("updateUserAvatar", auth,
                        updateUserImage(MulterSave(Store, {file}), auth.uid,
                                        "avatar", file, deleteOk, uploadOk))

\* PATCH /cover-image: verifyJWT, upload.single("coverImage"), updateUserCoverImage
UpdateUserCoverImage ==
    /\ proc = "listening"
    /\ \E cred \in Credentials :
        LET auth == verifyJWT(cred[1], cred[2])
        IN  IF auth.out.kind = "rejected" THEN Unauthorized(auth)
            ELSE \E file \in ImageFiles,
                    deleteOk \in HostOutcomes, uploadOk \in HostOutcomes :
                    Authorized("updateUserCoverImage", auth,
                        updateUserImage(MulterSave(Store, {file}), auth.uid,
                                        "coverImage", file, deleteOk, uploadOk))

\* GET /c/:username: verifyJWT, getUserChannelProfile
GetUserChannelProfile ==
    /\ proc = "listening"
    /\ \E cred \in Credentials :
        LET auth == verifyJWT(cred[1], cred[2])
        IN  IF auth.out.kind = "rejected" THEN Unauthorized(auth)
            ELSE \E username \in ChannelNames :
                    Authorized("getUserChannelProfile", auth,
                        getUserChannelProfile(Store, auth.uid, username))

\* GET /history: verifyJWT, getWatchHistory
GetWatchHistory ==
    /\ proc = "listening"
    /\ \E cred \in Credentials :
        LET auth == verifyJWT(cred[1], cred[2])
        IN  IF auth.out.kind = "rejected" THEN Unauthorized(auth)
            ELSE Authorized("getWatchHistory", auth, getWatchHistory(Store, auth.uid))

Next ==
    \/ ConnectDBResolves
    \/ ConnectDBRejects
    \/ AppListen
    \/ ServerListening
    \/ ServerError
    \/ Tick
    \/ RegisterUser
    \/ LoginUser
    \/ RefreshAccessToken
    \/ LogoutUser
    \/ ChangeCurrentPassword
    \/ GetCurrentUser
    \/ UpdateAccountDetails
    \/ UpdateUserAvatar
    \/ UpdateUserCoverImage
    \/ GetUserChannelProfile
    \/ GetWatchHistory

Spec == Init /\ [][Next]_vars

(***************************************************************************)
(* Login and refresh requests handled concurrently.  A request advances    *)
(* from one await to the next in a step of its own; the requests of the    *)
(* clients interleave between the steps.  Each client sends one request.   *)
(***************************************************************************)
EmptyStore ==
    [users |-> <<>>, assets |-> {}, tempFiles |-> {}, videos |-> <<>>,
     subscriptions |-> <<>>]

\* the store after the first client has registered
Registered ==
    registerUser(MulterSave(EmptyStore, {"f"}), BodyA.fullName, BodyA.email,
                 BodyA.username, BodyA.password, "f", "f", TRUE, TRUE).st

\* the store after that user has also logged in
LoggedIn == loginUser(Registered, Missing, BodyA.username, BodyA.password, TRUE).st

\* the server listens, one user exists, with or without a stored refresh token
InitConcurrent ==
    /\ workload = "concurrent"
    /\ db = "connected"
    /\ proc = "listening"
    /\ exitCode = -1
    /\ listenCalled = TRUE
    /\ now = 0
    /\ \E st \in {Registered, LoggedIn} :
            users = st.users /\ assets = st.assets /\ tempFiles = st.tempFiles
    /\ resp = NoResp
    /\ videos = <<>>
    /\ subscriptions = <<>>
    /\ inflight = [c \in Clients |-> Idle]
    /\ commits = <<>>
    /\ written = NoWrites


\* the request is answered with an error status
Failed(req, status) ==
    [req EXCEPT !.pc = "done", !.status = status, !.responses = @ + 1]

Step(c, req) ==
    /\ inflight' = [inflight EXCEPT ![c] = req]
    /\ UNCHANGED <<written, videos, subscriptions, commits, workload, db, proc, exitCode,
                   listenCalled, now, users, assets, tempFiles, resp>>

\* loginUser up to its first await: the body is read and User.findOne is sent
BeginLogin(c) ==
    /\ proc = "listening"
    /\ inflight[c] = Idle
    /\ Step(c, Request("loginUser", "findOne"))

\* loginUser after User.findOne: the password is compared;
\* generateAccessAndRefereshTokens is entered and User.findById is sent
LoginFindOne(c) ==
    /\ inflight[c].kind = "loginUser" /\ inflight[c].pc = "findOne"
    /\ \E b \in LoginBodies :
        LET uid == FindOneByUsernameOrEmail(users, b.username, b.email)
        IN  Step(c, IF uid = 0 THEN Failed(inflight[c], 500)
                    ELSE IF ~isPasswordCorrect(users[uid], b.password)
                    THEN Failed(inflight[c], 401)
                    ELSE [inflight[c] EXCEPT !.pc = "findById", !.uid = uid])

\* refreshAccessToken up to its first await: jwt.verify, then User.findById sent
BeginRefresh(c) ==
    /\ proc = "listening"
    /\ inflight[c] = Idle
    /\ \E cred \in RefreshCredentials :
        LET tok == IF cred[1] # NoToken THEN cred[1] ELSE cred[2]
            req == [Request("refreshAccessToken", "lookup") EXCEPT
                        !.presented = tok, !.uid = tok.uid]
        IN  Step(c, IF tok = NoToken \/ jwtVerify(tok, "refresh") # "ok"
                    THEN Failed(req, 401)
                    ELSE req)

\* refreshAccessToken after User.findById: the presented token is compared with
\* the stored one; generateAccessAndRefereshTokens is entered
RefreshLookup(c) ==
    /\ inflight[c].kind = "refreshAccessToken" /\ inflight[c].pc = "lookup"
    /\ Step(c, IF inflight[c].uid \notin DOMAIN users
                    \/ TokenIsNotTheStoredOne(users[inflight[c].uid],
                                              inflight[c].presented)
               THEN Failed(inflight[c], 401)
               ELSE [inflight[c] EXCEPT !.pc = "findById"])

\* generateAccessAndRefereshTokens after User.findById: both tokens are signed,
\* user.refreshToken is assigned and user.save is sent
GenerateFindById(c) ==
    /\ inflight[c].pc = "findById"
    /\ Step(c, [inflight[c] EXCEPT
                    !.pc = "save",
                    !.accessToken = generateAccessToken(inflight[c].uid),
                    !.refreshToken = generateRefreshToken(inflight[c].uid)])

\* user.save commits
GenerateSave(c) ==
    /\ inflight[c].pc = "save"
    /\ users' = saveRefreshToken(users, inflight[c].uid, inflight[c].refreshToken)
    /\ commits' = Append(commits, inflight[c].refreshToken)
    /\ inflight' = [inflight EXCEPT ![c].pc = "respond"]
    /\ UNCHANGED <<written, videos, subscriptions, workload, db, proc, exitCode,
                   listenCalled, now, assets, tempFiles, resp>>

\* the handler sends its 200 response with the tokens it signed
Respond(c) ==
    /\ inflight[c].pc = "respond"
    /\ Step(c, [inflight[c] EXCEPT
                    !.pc = "done",
                    !.responses = @ + 1,
                    !.status = IF inflight[c].kind = "registerUser" THEN 201 ELSE 200])

NextConcurrent ==
    \/ \E c \in Clients : BeginLogin(c)
    \/ \E c \in Clients : LoginFindOne(c)
    \/ \E c \in Clients : BeginRefresh(c)
    \/ \E c \in Clients : RefreshLookup(c)
    \/ \E c \in Clients : GenerateFindById(c)
    \/ \E c \in Clients : GenerateSave(c)
    \/ \E c \in Clients : Respond(c)
    \/ Tick

SpecConcurrent == InitConcurrent /\ [][NextConcurrent]_vars

(***************************************************************************)
(* A logout handled concurrently with refresh requests.                    *)
(***************************************************************************)
\* POST /logout up to verifyJWT's await: the access token is verified and
\* User.findById is sent
BeginLogout(c) ==
    /\ proc = "listening"
    /\ inflight[c] = Idle
    /\ \E cred \in Credentials :
        LET token == IF cred[1] # NoToken THEN cred[1] ELSE cred[2]
            req == [Request("logoutUser", "verifyJWT") EXCEPT !.uid = token.uid]
        IN  Step(c, IF token = NoToken \/ jwtVerify(token, "access") # "ok"
                    THEN Failed(req, 401)
                    ELSE req)

\* verifyJWT after User.findById: req.user is set and next() enters
\* logoutUser, which sends User.findByIdAndUpdate
LogoutVerified(c) ==
    /\ inflight[c].kind = "logoutUser" /\ inflight[c].pc = "verifyJWT"
    /\ Step(c, IF inflight[c].uid \notin DOMAIN users THEN Failed(inflight[c], 401)
               ELSE [inflight[c] EXCEPT !.pc = "unset"])

\* User.findByIdAndUpdate(req.user._id, {$unset: {refreshToken: 1}}) commits
LogoutUnset(c) ==
    /\ inflight[c].kind = "logoutUser" /\ inflight[c].pc = "unset"
    /\ users' = [users EXCEPT ![inflight[c].uid].refreshToken = NoToken]
    /\ inflight' = [inflight EXCEPT ![c].pc = "respond"]
    /\ UNCHANGED <<written, videos, subscriptions, commits, workload, db, proc, exitCode,
                   listenCalled, now, assets, tempFiles, resp>>

NextLogout ==
    \/ \E c \in Clients : BeginLogout(c)
    \/ \E c \in Clients : LogoutVerified(c)
    \/ \E c \in Clients : LogoutUnset(c)
    \/ \E c \in Clients : BeginRefresh(c)
    \/ \E c \in Clients : RefreshLookup(c)
    \/ \E c \in Clients : GenerateFindById(c)
    \/ \E c \in Clients : GenerateSave(c)
    \/ \E c \in Clients : Respond(c)
    \/ Tick

SpecLogout == InitConcurrent /\ [][NextLogout]_vars

(***************************************************************************)
(* Registrations and account updates handled concurrently.                 *)
(***************************************************************************)
InitRegistering ==
    /\ workload = "registering"
    /\ db = "connected"
    /\ proc = "listening"
    /\ exitCode = -1
    /\ listenCalled = TRUE
    /\ now = 0
    /\ \E st \in {EmptyStore, Registered} :
            users = st.users /\ assets = st.assets /\ tempFiles = st.tempFiles
    /\ resp = NoResp
    /\ videos = <<>>
    /\ subscriptions = <<>>
    /\ inflight = [c \in Clients |-> Idle]
    /\ commits = <<>>
    /\ written = NoWrites

\* two connections carry the registrations and account updates; a connection
\* sends its next request when the last one has been answered
Connections == {1, 2}
CanSend(c) == c \in Connections /\ inflight[c].pc \in {"idle", "done"}

\* a step of a request that leaves the store as st
StepStore(c, req, st) ==
    /\ inflight' = [inflight EXCEPT ![c] = req]
    /\ users' = st.users
    /\ assets' = st.assets
    /\ tempFiles' = st.tempFiles
    /\ UNCHANGED <<written, videos, subscriptions, commits, workload, db, proc, exitCode,
                   listenCalled, now, resp>>

\* a step of an upload request that leaves the store as st and the temporary
\* files' contents as w
StepFiles(c, req, st, w) ==
    /\ inflight' = [inflight EXCEPT ![c] = req]
    /\ users' = st.users
    /\ assets' = st.assets
    /\ tempFiles' = st.tempFiles
    /\ written' = w
    /\ UNCHANGED <<videos, subscriptions, commits, workload, db, proc, exitCode,
                   listenCalled, now, resp>>

\* POST /register up to registerUser's first await: multer stores the two
\* files, the blank check runs and User.findOne is sent
BeginRegister(c) ==
    /\ proc = "listening"
    /\ CanSend(c)
    /\ \E b \in RegisterBodies :
        LET req == [Request("registerUser", "findOne") EXCEPT !.body = b]
        IN  StepFiles(c, IF \E f \in DOMAIN b : b[f] # Missing /\ Trim(b[f]) = ""
                         THEN Failed(req, 400) ELSE req,
                      MulterSave(Store, {"f"}), [written EXCEPT !["f"] = c])

\* registerUser after User.findOne: 409 for an existing user, else the
\* upload of the avatar is sent
RegisterFindOne(c) ==
    /\ inflight[c].kind = "registerUser" /\ inflight[c].pc = "findOne"
    /\ Step(c, IF FindOneByUsernameOrEmail(users, inflight[c].body.username,
                                           inflight[c].body.email) # 0
               THEN Failed(inflight[c], 409)
               ELSE [inflight[c] EXCEPT !.pc = "uploadAvatar"])

\* uploadOnCloudinary(absoluteAvatarPath) returns; the cover upload is sent
RegisterUploadAvatar(c) ==
    /\ inflight[c].kind = "registerUser" /\ inflight[c].pc = "uploadAvatar"
    /\ LET avatar == uploadOnCloudinary(Store, "f", TRUE)
       IN  StepStore(c, IF avatar.threw THEN Failed(inflight[c], 500)
                        ELSE [inflight[c] EXCEPT !.pc = "uploadCover",
                                                 !.avatar = avatar.ret.url],
                     avatar.st)

\* uploadOnCloudinary(absoluteCoverImagePath) returns; 400 when the avatar
\* upload returned null, else User.create is sent
RegisterUploadCover(c) ==
    /\ inflight[c].kind = "registerUser" /\ inflight[c].pc = "uploadCover"
    /\ LET coverImage == uploadOnCloudinary(Store, "f", TRUE)
       IN  StepStore(c, IF coverImage.threw THEN Failed(inflight[c], 500)
                        ELSE IF inflight[c].avatar = NoUrl THEN Failed(inflight[c], 400)
                        ELSE [inflight[c] EXCEPT !.pc = "create",
                                                 !.coverImage = coverImage.ret.url],
                     coverImage.st)

\* User.create commits, or is rejected by a unique index
RegisterCreate(c) ==
    /\ inflight[c].kind = "registerUser" /\ inflight[c].pc = "create"
    /\ Cardinality(DOMAIN users) < MaxUsers
    /\ LET b == inflight[c].body
           id == Cardinality(DOMAIN users) + 1
           doc == [username |-> ToLowerCase(b.username), email |-> b.email,
                   fullName |-> b.fullName, password |-> Hash(b.password),
                   refreshToken |-> NoToken, avatar |-> inflight[c].avatar,
                   coverImage |-> inflight[c].coverImage, watchHistory |-> <<>>]
       IN  IF UniqueIndexViolation(users, id, ToLowerCase(b.username), b.email)
           THEN StepStore(c, Failed(inflight[c], 500), Store)
           ELSE StepStore(c, [inflight[c] EXCEPT !.pc = "respond", !.uid = id],
                          [Store EXCEPT !.users = @ @@ (id :> doc)])

\* PATCH /update-account up to verifyJWT's await
BeginUpdate(c) ==
    /\ proc = "listening"
    /\ CanSend(c)
    /\ \E cred \in Credentials :
        LET token == IF cred[1] # NoToken THEN cred[1] ELSE cred[2]
            req == [Request("updateAccountDetails", "verifyJWT") EXCEPT !.uid = token.uid]
        IN  Step(c, IF token = NoToken \/ jwtVerify(token, "access") # "ok"
                    THEN Failed(req, 401)
                    ELSE req)

\* verifyJWT after User.findById: next() enters updateAccountDetails, which
\* checks the fields and sends User.findByIdAndUpdate
UpdateVerified(c) ==
    /\ inflight[c].kind = "updateAccountDetails" /\ inflight[c].pc = "verifyJWT"
    /\ IF inflight[c].uid \notin DOMAIN users THEN Step(c, Failed(inflight[c], 401))
       ELSE \E upd \in AccountUpdates(inflight[c].uid) :
                Step(c, IF Falsy(upd[1]) \/ Falsy(upd[2]) THEN Failed(inflight[c], 400)
                        ELSE [inflight[c] EXCEPT !.pc = "findByIdAndUpdate",
                                                 !.body.fullName = upd[1],
                                                 !.body.email = upd[2]])

\* User.findByIdAndUpdate({$set: {fullName, email}}) commits, or is rejected
\* by the unique index on email
UpdateCommit(c) ==
    /\ inflight[c].kind = "updateAccountDetails" /\ inflight[c].pc = "findByIdAndUpdate"
    /\ LET uid == inflight[c].uid
       IN  IF UniqueIndexViolation(users, uid, users[uid].username, inflight[c].body.email)
           THEN StepStore(c, Failed(inflight[c], 500), Store)
           ELSE StepStore(c, [inflight[c] EXCEPT !.pc = "respond"],
                          [Store EXCEPT !.users[uid].fullName = inflight[c].body.fullName,
                                        !.users[uid].email = inflight[c].body.email])

NextRegistering ==
    \/ \E c \in Clients : BeginRegister(c)
    \/ \E c \in Clients : RegisterFindOne(c)
    \/ \E c \in Clients : RegisterUploadAvatar(c)
    \/ \E c \in Clients : RegisterUploadCover(c)
    \/ \E c \in Clients : RegisterCreate(c)
    \/ \E c \in Clients : BeginUpdate(c)
    \/ \E c \in Clients : UpdateVerified(c)
    \/ \E c \in Clients : UpdateCommit(c)
    \/ \E c \in Clients : Respond(c)

SpecRegistering == InitRegistering /\ [][NextRegistering]_vars

\* the store after a second client has registered
TwoRegistered ==
    registerUser(MulterSave(Registered, {"f"}), BodyB.fullName, BodyB.email,
                 BodyB.username, BodyB.password, "f", "f", TRUE, TRUE).st

(***************************************************************************)
(* Avatar and cover-image updates handled concurrently.  upload.single     *)
(* stores the file of a request at ./public/temp/<original name>.          *)
(***************************************************************************)
InitUploading ==
    /\ workload = "uploading"
    /\ db = "connected"
    /\ proc = "listening"
    /\ exitCode = -1
    /\ listenCalled = TRUE
    /\ now = 0
    /\ users = TwoRegistered.users
    /\ assets = TwoRegistered.assets
    /\ tempFiles = {}
    /\ resp = NoResp
    /\ videos = <<>>
    /\ subscriptions = <<>>
    /\ inflight = [c \in Clients |-> Idle]
    /\ commits = <<>>
    /\ written = NoWrites

\* the image field a handler updates
ImageField(kind) == IF kind = "updateUserAvatar" THEN "avatar" ELSE "coverImage"

\* PATCH /avatar or /cover-image up to verifyJWT's await
BeginImage(c) ==
    /\ proc = "listening"
    /\ inflight[c] = Idle
    /\ \E cred \in Credentials, kind \in {"updateUserAvatar", "updateUserCoverImage"} :
        LET token == IF cred[1] # NoToken THEN cred[1] ELSE cred[2]
            req == [Request(kind, "verifyJWT") EXCEPT !.uid = token.uid]
        IN  Step(c, IF token = NoToken \/ jwtVerify(token, "access") # "ok"
                    THEN Failed(req, 401)
                    ELSE req)

\* verifyJWT calls next(); upload.single writes the file of the request to
\* ./public/temp/<originalname>, replacing a file of that name; the handler
\* answers 400 without a file, else sends deleteFromCloudinary
ImageVerified(c) ==
    /\ inflight[c].kind \in {"updateUserAvatar", "updateUserCoverImage"}
    /\ inflight[c].pc = "verifyJWT"
    /\ IF inflight[c].uid \notin DOMAIN users THEN Step(c, Failed(inflight[c], 401))
       ELSE \E name \in UploadNames \cup {Missing} :
                IF name = Missing THEN Step(c, Failed(inflight[c], 400))
                ELSE StepFiles(c, [inflight[c] EXCEPT !.pc = "delete", !.file = name],
                               MulterSave(Store, {name}),
                               [written EXCEPT ![name] = c])

\* deleteFromCloudinary(req.user.avatar) returns or throws; uploadOnCloudinary
\* is sent
ImageDelete(c) ==
    /\ inflight[c].pc = "delete"
    /\ \E deleteOk \in HostOutcomes :
        LET old == users[inflight[c].uid][ImageField(inflight[c].kind)]
            deleted == deleteFromCloudinary(Store, old, deleteOk)
        IN  StepFiles(c, IF deleted.threw THEN Failed(inflight[c], 500)
                         ELSE [inflight[c] EXCEPT !.pc = "upload"],
                      deleted.st, written)

\* uploadOnCloudinary(localPath) returns or throws: the host received the
\* bytes that the file at the path held; User.findByIdAndUpdate is sent
ImageUpload(c) ==
    /\ inflight[c].pc = "upload"
    /\ \E uploadOk \in HostOutcomes :
        LET uploaded == uploadOnCloudinary(Store, inflight[c].file, uploadOk)
        IN  StepFiles(c, IF uploaded.threw \/ uploaded.ret.isNull
                         THEN Failed(inflight[c], 500)
                         ELSE [inflight[c] EXCEPT !.pc = "update",
                                                  !.avatar = uploaded.ret.url,
                                                  !.sent = written[inflight[c].file]],
                      uploaded.st, written)

\* User.findByIdAndUpdate({$set: {avatar: avatar.url}}) commits
ImageUpdate(c) ==
    /\ inflight[c].pc = "update"
    /\ StepFiles(c, [inflight[c] EXCEPT !.pc = "respond"],
                 [Store EXCEPT !.users[inflight[c].uid][ImageField(inflight[c].kind)] =
                                    inflight[c].avatar],
                 written)

NextUploading ==
    \/ \E c \in Clients : BeginImage(c)
    \/ \E c \in Clients : ImageVerified(c)
    \/ \E c \in Clients : ImageDelete(c)
    \/ \E c \in Clients : ImageUpload(c)
    \/ \E c \in Clients : ImageUpdate(c)
    \/ \E c \in Clients : Respond(c)

SpecUploading == InitUploading /\ [][NextUploading]_vars

(***************************************************************************)
(* The path of one request through a route of the user router: verifyJWT   *)
(* on the secured routes, multer on the routes that carry files, then the  *)
(* handler; each is wrapped by asyncHandler (multer calls next itself),    *)
(* whose catch passes a rejection to next(err), and express gives the      *)
(* error to the handler ErrorHandlerFor names, which writes the response.  *)
(* A stage is one step: every call it awaits returns or fails.             *)
(***************************************************************************)
\* the routes: handler, whether verifyJWT guards it, whether multer runs
Routes ==
    {[handler |-> "registerUser", secured |-> FALSE, upload |-> TRUE],
     [handler |-> "loginUser", secured |-> FALSE, upload |-> FALSE],
     [handler |-> "logoutUser", secured |-> TRUE, upload |-> FALSE],
     [handler |-> "refreshAccessToken", secured |-> FALSE, upload |-> FALSE],
     [handler |-> "changeCurrentPassword", secured |-> TRUE, upload |-> FALSE],
     [handler |-> "getCurrentUser", secured |-> TRUE, upload |-> FALSE],
     [handler |-> "updateAccountDetails", secured |-> TRUE, upload |-> FALSE],
     [handler |-> "updateUserAvatar", secured |-> TRUE, upload |-> TRUE],
     [handler |-> "updateUserCoverImage", secured |-> TRUE, upload |-> TRUE],
     [handler |-> "getUserChannelProfile", secured |-> TRUE, upload |-> FALSE],
     [handler |-> "getWatchHistory", secured |-> TRUE, upload |-> FALSE]}

RouteOf(handler) == CHOOSE r \in Routes : r.handler = handler

\* the stage that follows stage pc on a route
NextStage(route, pc) ==
    IF pc = "arrived" /\ route.secured THEN "verifyJWT"
    ELSE IF pc \in {"arrived", "verifyJWT"} /\ route.upload THEN "upload"
    ELSE "handler"

InitAnswering ==
    /\ workload = "answering"
    /\ db = "connected"
    /\ proc = "listening"
    /\ exitCode = -1
    /\ listenCalled = TRUE
    /\ now = 0
    /\ \E st \in {EmptyStore, Registered, LoggedIn} :
        /\ users = st.users
        /\ assets = st.assets
        /\ tempFiles = st.tempFiles
    /\ resp = NoResp
    /\ videos = <<>>
    /\ subscriptions = <<>>
    /\ inflight = [c \in Clients |-> Idle]
    /\ commits = <<>>
    /\ written = NoWrites

\* a request reaches the router and is given to the first stage of its route
Arrive(c) ==
    /\ proc = "listening"
    /\ c \in Connections
    /\ inflight[c] = Idle
    /\ \E route \in Routes :
        Step(c, Request(route.handler, NextStage(route, "arrived")))

\* a stage settled with outcome: a fulfilled middleware has called next() and
\* the request is at stage pc; a rejection is passed by asyncHandler's catch
\* to next(err), and the request waits unanswered when it is not
Settle(req, outcome, pc) ==
    IF outcome.kind = "fulfilled" THEN [req EXCEPT !.pc = pc]
    ELSE IF asyncHandler(outcome).nextCalls = <<>> THEN [req EXCEPT !.pc = "pending"]
    ELSE [req EXCEPT !.pc = "errorHandler", !.err = asyncHandler(outcome).nextCalls[1]]

\* a handler settled as r: res.status(..).json(..) has sent its response, or
\* its rejection is on the way to the error handler
Handled(c, r) ==
    StepStore(c, IF r.out.kind = "fulfilled"
                 THEN [inflight[c] EXCEPT !.pc = "done", !.status = r.res.status,
                                          !.responses = @ + 1]
                 ELSE Settle(inflight[c], r.out, "done"),
              r.st)

\* verifyJWT settles
RunVerifyJWT(c) ==
    /\ inflight[c].pc = "verifyJWT"
    /\ \E cred \in Credentials :
        LET auth == verifyJWT(cred[1], cred[2])
            route == RouteOf(inflight[c].kind)
        IN  Step(c, Settle([inflight[c] EXCEPT !.uid = auth.uid], auth.out,
                           NextStage(route, "verifyJWT")))

\* multer has stored the files of the request and calls next()
RunUpload(c) ==
    /\ inflight[c].pc = "upload"
    /\ \E files \in IF inflight[c].kind = "registerUser" THEN RegisterFiles
                    ELSE {<<f, Missing>> : f \in ImageFiles} :
        StepStore(c, [inflight[c] EXCEPT !.pc = "handler", !.file = files[1],
                                         !.cover = files[2]],
                  MulterSave(Store, {files[1], files[2]}))

\* the handler of the route settles
RunHandler(c) ==
    LET req == inflight[c]
    IN  /\ req.pc = "handler"
        /\ \/ /\ req.kind = "registerUser"
              /\ \E b \in RegisterBodies, avatarUp \in HostOutcomes, coverUp \in HostOutcomes :
                    Handled(c, registerUser(Store, b.fullName, b.email, b.username,
                                            b.password, req.file, req.cover,
                                            avatarUp, coverUp))
           \/ /\ req.kind = "loginUser"
              /\ \E b \in LoginBodies, saveOk \in SaveOutcomes :
                    Handled(c, loginUser(Store, b.email, b.username, b.password, saveOk))
           \/ /\ req.kind = "logoutUser"
              /\ Handled(c, logoutUser(Store, req.uid))
           \/ /\ req.kind = "refreshAccessToken"
              /\ \E cred \in RefreshCredentials, saveOk \in SaveOutcomes :
                    Handled(c, refreshAccessToken(Store, cred[1], cred[2], saveOk))
           \/ /\ req.kind = "changeCurrentPassword"
              /\ \E pw \in PasswordChanges :
                    Handled(c, changeCurrentPassword(Store, req.uid, pw[1], pw[2]))
           \/ /\ req.kind = "getCurrentUser"
              /\ Handled(c, getCurrentUser(Store, req.uid))
           \/ /\ req.kind = "updateAccountDetails"
              /\ \E upd \in AccountUpdates(req.uid) :
                    Handled(c, updateAccountDetails(Store, req.uid, upd[1], upd[2]))
           \/ /\ req.kind \in {"updateUserAvatar", "updateUserCoverImage"}
              /\ \E deleteOk \in HostOutcomes, uploadOk \in HostOutcomes :
                    Handled(c, updateUserImage(Store, req.uid, ImageField(req.kind),
                                               req.file, deleteOk, uploadOk))
           \/ /\ req.kind = "getUserChannelProfile"
              /\ \E username \in ChannelNames :
                    Handled(c, getUserChannelProfile(Store, req.uid, username))
           \/ /\ req.kind = "getWatchHistory"
              /\ Handled(c, getWatchHistory(Store, req.uid))

\* the error given to next(err) reaches its handler, which writes the response
HandleError(c) ==
    /\ inflight[c].pc = "errorHandler"
    /\ Step(c, [inflight[c] EXCEPT
                    !.pc = "done",
                    !.responses = @ + 1,
                    !.status = IF ErrorHandlerFor("userRouter") = "errorMiddleware"
                               THEN ErrorMiddlewareStatus(inflight[c].err)
                               ELSE FinalHandlerStatus(inflight[c].err)])

\* the stages of the request of client c
Answering(c) == RunVerifyJWT(c) \/ RunUpload(c) \/ RunHandler(c) \/ HandleError(c)

NextAnswering ==
    \/ \E c \in Clients : Arrive(c)
    \/ \E c \in Clients : RunVerifyJWT(c)
    \/ \E c \in Clients : RunUpload(c)
    \/ \E c \in Clients : RunHandler(c)
    \/ \E c \in Clients : HandleError(c)

\* every call a stage awaits returns or fails, so a stage that has been
\* entered settles
SpecAnswering ==
    InitAnswering /\ [][NextAnswering]_vars /\ \A c \in Connections : WF_vars(Answering(c))

(***************************************************************************)
(* The aggregation routes over stored watch histories, videos and          *)
(* subscriptions.  No route of the user router writes these; the           *)
(* collections are drawn at the start: watch histories with videos         *)
(* ("history"), or subscriptions ("channels").                             *)
(***************************************************************************)
\* the sequences over S of length at most n
SeqUpTo(S, n) == UNION {[1..k -> S] : k \in 0..n}

\* the videos collection: the document at position i has _id i; its owner is
\* a user or a user since deleted
VideoCollections ==
    {[i \in DOMAIN owners |-> [_id |-> i, owner |-> owners[i]]] :
        owners \in SeqUpTo({1, 2, OrphanId}, MaxVideos)}

\* a watchHistory list: references to videos, some of them since deleted
WatchHistories == SeqUpTo(1..(MaxVideos + 1), MaxHistory)

\* the subscriptions collection
SubscriptionCollections ==
    SeqUpTo([subscriber : {1, 2}, channel : {1, 2}], MaxSubs)

InitQuery ==
    /\ workload \in {"history", "channels"}
    /\ db = "connected"
    /\ proc = "listening"
    /\ exitCode = -1
    /\ listenCalled = TRUE
    /\ now = 0
    /\ \E st \in {Registered, TwoRegistered} :
        /\ assets = st.assets
        /\ tempFiles = st.tempFiles
        /\ IF workload = "history"
           THEN /\ \E h \in WatchHistories :
                        users = [st.users EXCEPT ![1].watchHistory = h]
                /\ videos \in VideoCollections
                /\ subscriptions = <<>>
           ELSE /\ users = st.users
                /\ videos = <<>>
                /\ subscriptions \in SubscriptionCollections
    /\ resp = NoResp
    /\ inflight = [c \in Clients |-> Idle]
    /\ commits = <<>>
    /\ written = NoWrites

NextQuery ==
    \/ GetUserChannelProfile
    \/ GetWatchHistory

SpecQuery == InitQuery /\ [][NextQuery]_vars

(***************************************************************************)
(* Properties.                                                             *)
(***************************************************************************)
\* the token a request presents: the cookie, or else the body / the header
Presented(cred) == IF cred[1] # NoToken THEN cred[1] ELSE cred[2]

\* the latest request was answered by the controller `name` of a public route
AnsweredBy(name) == Len(resp.stages) = 1 /\ resp.stages[1].name = name

\* the latest request passed verifyJWT and was answered by the controller `name`
AnsweredAs(name) == Len(resp.stages) = 2 /\ resp.stages[2].name = name

\* a refresh token that verifies, names a user and is that user's stored token
IsTheStoredToken(tok) ==
    /\ tok.sig = "ok" /\ tok.typ = "refresh" /\ now < Exp(tok)
    /\ tok.uid \in DOMAIN users
    /\ tok = users[tok.uid].refreshToken

\* C1: a refresh request is answered 200, with a new pair issued and stored,
\* only if the presented token verifies, names an existing user and is that
\* user's stored refresh token; every other refresh request is answered 401
\* and leaves the users collection as it was.
C1_RefreshOnlyWithStoredToken ==
    \A cred \in RefreshCredentials, saveOk \in SaveOutcomes :
        LET tok == Presented(cred)
            r == refreshAccessToken(Store, cred[1], cred[2], saveOk)
            answer == Answer("refreshAccessToken", r)
        IN  /\ answer.status = 200 =>
                /\ IsTheStoredToken(tok)
                /\ answer.accessToken = generateAccessToken(tok.uid)
                /\ answer.refreshToken = generateRefreshToken(tok.uid)
                /\ r.st.users[tok.uid].refreshToken = answer.refreshToken
            /\ answer.status # 200 => answer.status = 401 /\ r.st.users = users
            /\ ~IsTheStoredToken(tok) => answer.status = 401

\* a refresh request was turned down because its token is not the stored one
C1_Witness ==
    /\ AnsweredBy("refreshAccessToken")
    /\ resp.status = 401
    /\ resp.message = "Refresh token is expired or used"

\* C2: once a login or a refresh has issued a new refresh token to a user, a
\* refresh request presenting the token that the issuance replaced is
\* answered 401, however close in time the two issuances were.
C2_ReplacedTokenIsRefused ==
    (resp.status = 200 /\ resp.refreshToken # NoToken /\ resp.overwritten # NoToken)
        => Answer("refreshAccessToken",
                  refreshAccessToken(Store, resp.overwritten, NoToken, TRUE)).status = 401

\* C3: a logout leaves the user without a stored refresh token; while a user
\* has none, a refresh request with a token of that user is answered 401 and
\* changes nothing, and only a successful login of that user stores one.
C3_LogoutEndsTheSession ==
    [][/\ (Len(resp'.stages) = 2 /\ resp'.stages[2].name = "logoutUser"
                /\ resp'.status = 200)
            => users'[resp'.user].refreshToken = NoToken
       /\ \A u \in DOMAIN users : users[u].refreshToken = NoToken =>
            /\ (Len(resp'.stages) = 1 /\ resp'.stages[1].name = "refreshAccessToken") =>
                 \A cred \in RefreshCredentials, saveOk \in SaveOutcomes :
                    LET r == refreshAccessToken(Store, cred[1], cred[2], saveOk)
                    IN  (/\ Presented(cred).uid = u
                         /\ resp' = Answer("refreshAccessToken", r)
                         /\ users' = r.st.users)
                            => resp'.status = 401 /\ users' = users
            /\ users'[u].refreshToken # NoToken =>
                 /\ Len(resp'.stages) = 1 /\ resp'.stages[1].name = "loginUser"
                 /\ resp'.status = 200 /\ resp'.user = u
      ]_vars

\* a logout removed a stored refresh token that had not expired
C3_Witness ==
    /\ AnsweredAs("logoutUser")
    /\ resp.status = 200
    /\ resp.overwritten # NoToken
    /\ jwtVerify(resp.overwritten, "refresh") = "ok"
    /\ users[resp.user].refreshToken = NoToken

\* C4: after a successful login the stored refresh token is the one returned
\* in the cookie and the body, and it is no longer the token a previous
\* login had stored: the second login invalidates the first client's token.
C4_SecondLoginInvalidatesTheFirst ==
    (AnsweredBy("loginUser") /\ resp.status = 200 /\ resp.overwritten # NoToken)
        => /\ users[resp.user].refreshToken = resp.refreshToken
           /\ resp.cookieRefresh = resp.refreshToken
           /\ users[resp.user].refreshToken # resp.overwritten

\* the body names the username or the email of an existing user
Duplicate(b) ==
    \E u \in DOMAIN users : users[u].username = b.username \/ users[u].email = b.email

\* a field of the body is blank after trimming
HasBlankField(b) ==
    \E f \in {"fullName", "email", "username", "password"} :
        b[f] # Missing /\ Trim(b[f]) = ""

\* a register request with body b is answered 409 and leaves the users
\* collection as it was, whatever files it carries
AnsweredConflict(b) ==
    \A files \in RegisterFiles, avatarUp \in HostOutcomes, coverUp \in HostOutcomes :
        LET r == registerUser(MulterSave(Store, {files[1], files[2]}),
                              b.fullName, b.email, b.username, b.password,
                              files[1], files[2], avatarUp, coverUp)
        IN  Answer("registerUser", r).status = 409 /\ r.st.users = users

\* C5, as stated: a register request with the username or the email of an
\* existing user is answered 409, creates no user and changes none.
C5_DuplicateIsConflict ==
    \A b \in RegisterBodies : Duplicate(b) => AnsweredConflict(b)

\* C5, amended: a register request none of whose fields is blank after
\* trimming, with the username or the email of an existing user, is answered
\* 409, creates no user and changes none.
C5_FilledDuplicateIsConflict ==
    \A b \in RegisterBodies : (Duplicate(b) /\ ~HasBlankField(b)) => AnsweredConflict(b)

\* a register request was answered 409 while a user exists
C5_Witness ==
    /\ AnsweredBy("registerUser")
    /\ resp.status = 409
    /\ users # <<>>

\* C6: a login naming an existing user with a password that is not the
\* user's is answered 401, with no token in the body and no cookie set, and
\* leaves the users collection (the stored refresh token) as it was.
C6_WrongPasswordIsUnauthorized ==
    \A b \in LoginBodies, saveOk \in SaveOutcomes :
        LET uid == FindOneByUsernameOrEmail(users, b.username, b.email)
            r == loginUser(Store, b.email, b.username, b.password, saveOk)
            answer == Answer("loginUser", r)
        IN  (uid # 0 /\ b.password # Missing /\ users[uid].password # Hash(b.password))
                => /\ answer.status = 401
                   /\ answer.accessToken = NoToken /\ answer.refreshToken = NoToken
                   /\ answer.cookieAccess = NoToken /\ answer.cookieRefresh = NoToken
                   /\ r.st.users = users

\* a login with a wrong password was turned down while the user holds a
\* stored refresh token
C6_Witness ==
    /\ AnsweredBy("loginUser")
    /\ resp.status = 401
    /\ resp.message = "Invalid user credentials, Wrong Password!!!!!!"
    /\ StoredTokens # {}

\* C7: every error a route handler or verifyJWT throws is answered by the
\* error middleware of app.js: JSON {success: false, message, statusCode}
\* with the error's statusCode (500 when it has none) as the HTTP status.
C7_ErrorsAnsweredByErrorMiddleware ==
    \A i \in DOMAIN resp.stages :
        resp.stages[i].outcome.kind = "rejected" =>
            /\ resp.format = "errorJson"
            /\ resp.status = ErrorMiddlewareStatus(resp.stages[i].outcome.err)
            /\ resp.bodyStatusCode = resp.status
            /\ resp.message = ErrorMiddlewareMessage(resp.stages[i].outcome.err)

ProtectedHandlers ==
    {"logoutUser", "changeCurrentPassword", "getCurrentUser", "updateAccountDetails",
     "updateUserAvatar", "updateUserCoverImage", "getUserChannelProfile",
     "getWatchHistory"}

\* an access token that verifies and names an existing user
IsValidAccessToken(tok) ==
    /\ tok.sig = "ok" /\ tok.typ = "access" /\ now < Exp(tok)
    /\ tok.uid \in DOMAIN users

\* verifyJWT lets a request through, as the user its token names, exactly
\* when the access token of the cookie or else of the header verifies and
\* names an existing user, and fails with 401 otherwise
VerifyJWTAdmitsValidTokensOnly ==
    \A cred \in Credentials :
        LET auth == verifyJWT(cred[1], cred[2])
        IN  IF IsValidAccessToken(Presented(cred))
            THEN auth.out.kind = "fulfilled" /\ auth.uid = Presented(cred).uid
            ELSE auth.out.kind = "rejected" /\ auth.out.err.statusCode = 401

\* C8: verifyJWT lets a request through exactly when its access token (cookie
\* or else header) verifies and names an existing user, and fails with 401
\* otherwise; the eight protected handlers run only after verifyJWT let the
\* request through; a request it turned down is answered 401, runs nothing
\* else and changes no stored state; only register, login and refresh-token
\* run without it.
C8_ProtectedRoutesNeedAccessToken ==
    /\ []VerifyJWTAdmitsValidTokensOnly
    /\ [][/\ Len(resp'.stages) = 2 =>
               /\ resp'.stages[1] = Stage("verifyJWT", Fulfilled)
               /\ resp'.stages[2].name \in ProtectedHandlers
               /\ resp'.format = "ApiResponse" => resp'.user \in DOMAIN users
          /\ Len(resp'.stages) = 1 =>
               resp'.stages[1].name
                   \in {"verifyJWT", "registerUser", "loginUser", "refreshAccessToken"}
          /\ (Len(resp'.stages) = 1 /\ resp'.stages[1].name = "verifyJWT") =>
               /\ resp'.stages[1].outcome.kind = "rejected"
               /\ resp'.status = 401
               /\ users' = users /\ assets' = assets /\ tempFiles' = tempFiles
         ]_vars

\* a request with an expired access token of an existing user was turned down
C8_Witness ==
    /\ AnsweredBy("verifyJWT")
    /\ resp.status = 401
    /\ resp.message = "jwt expired"
    /\ users # <<>>

\* C9: app.listen is called, and the server listens, only once connectDB has
\* resolved; when the connection fails the process has exited with code 1
\* and app.listen has not been called.
C9_ListenOnlyAfterConnect ==
    /\ listenCalled => db = "connected"
    /\ proc \in {"starting", "listening"} => listenCalled
    /\ db = "failed" => proc = "exited" /\ exitCode = 1 /\ ~listenCalled

\* the server listens
C9_Witness == proc = "listening" /\ listenCalled /\ db = "connected"

\* C10: for each asyncHandler-wrapped stage of a request, a rejection with
\* error e makes the wrapper call next(e) exactly once and leaves no
\* rejection unhandled; a fulfilment makes the wrapper call next not at all.
C10_WrapperForwardsRejections ==
    \A i \in DOMAIN resp.stages :
        LET stage == resp.stages[i]
        IN  /\ ~stage.wrapper.unhandled
            /\ stage.outcome.kind = "rejected" =>
                    stage.wrapper.nextCalls = <<stage.outcome.err>>
            /\ stage.outcome.kind = "fulfilled" => stage.wrapper.nextCalls = <<>>

\* a controller rejected after verifyJWT fulfilled, and the rejection was
\* passed to next
C10_Witness ==
    /\ Len(resp.stages) = 2
    /\ resp.stages[1].outcome.kind = "fulfilled"
    /\ resp.stages[2].outcome.kind = "rejected"
    /\ resp.stages[2].wrapper.nextCalls = <<resp.stages[2].outcome.err>>

\* C11: a step changes a user's stored refresh token only as a login or a
\* refresh answered 200 for that user (the stored token is then the returned
\* one) or as a logout answered 200 for that user (the token is then absent);
\* a step that creates a user is a registerUser answer without tokens or
\* cookies, and the new user has no stored refresh token.
C11_OnlySessionRoutesWriteTheToken ==
    [][/\ \A u \in DOMAIN users :
            users'[u].refreshToken # users[u].refreshToken =>
                \/ /\ Len(resp'.stages) = 1
                   /\ resp'.stages[1].name \in {"loginUser", "refreshAccessToken"}
                   /\ resp'.status = 200 /\ resp'.user = u
                   /\ users'[u].refreshToken = resp'.refreshToken
                \/ /\ Len(resp'.stages) = 2 /\ resp'.stages[2].name = "logoutUser"
                   /\ resp'.status = 200 /\ resp'.user = u
                   /\ users'[u].refreshToken = NoToken
       /\ \A u \in DOMAIN users' \ DOMAIN users :
            /\ users'[u].refreshToken = NoToken
            /\ Len(resp'.stages) = 1 /\ resp'.stages[1].name = "registerUser"
            /\ resp'.accessToken = NoToken /\ resp'.refreshToken = NoToken
            /\ resp'.cookieAccess = NoToken /\ resp'.cookieRefresh = NoToken
      ]_vars

\* a password was changed for a user who holds a stored refresh token
C11_Witness ==
    /\ AnsweredAs("changeCurrentPassword")
    /\ resp.status = 200
    /\ users[resp.user].refreshToken # NoToken

\* no request is being handled
Quiescent == \A c \in Clients : inflight[c].pc \in {"idle", "done"}

\* C12: once the concurrent login and refresh requests of a user have all
\* completed, the user's stored refresh token is the token of the save that
\* committed last, and it is a token that one of the requests returned.
C12_LastSaveWins ==
    (Quiescent /\ commits # <<>>) =>
        LET last == commits[Len(commits)]
        IN  /\ users[last.uid].refreshToken = last
            /\ \E c \in Clients :
                    /\ inflight[c].status = 200
                    /\ inflight[c].refreshToken = last

\* two requests signed different tokens, the one signed first saved last, and
\* both have completed
C12_Witness ==
    /\ Quiescent
    /\ Len(commits) = 2
    /\ commits[1].iat > commits[2].iat

\* the positions of a list that hold the first occurrence of their element
RECURSIVE FirstOccurrences(_, _)
FirstOccurrences(list, i) ==
    IF i > Len(list) THEN <<>>
    ELSE IF \E j \in 1..(i - 1) : list[j] = list[i]
    THEN FirstOccurrences(list, i + 1)
    ELSE <<list[i]>> \o FirstOccurrences(list, i + 1)

\* the watch history as the claim describes it: the videos that the stored
\* list references, each once, in the order of the list
InStoredOrder(u) ==
    SelectSeq(FirstOccurrences(users[u].watchHistory, 1),
              LAMBDA id : id \in DOMAIN videos)

\* C13: getWatchHistory returns the videos the authenticated user's
\* watchHistory references in the order the references are stored, each with
\* its owner reduced to fullName, username and avatar.
C13_HistoryInStoredOrder ==
    \A u \in DOMAIN users :
        LET data == getWatchHistory(Store, u).res.data
        IN  /\ [i \in DOMAIN data |-> data[i]._id] = InStoredOrder(u)
            /\ \A i \in DOMAIN data :
                    videos[data[i]._id].owner \in DOMAIN users =>
                        /\ data[i].owner.fullName = users[videos[data[i]._id].owner].fullName
                        /\ data[i].owner.username = users[videos[data[i]._id].owner].username
                        /\ data[i].owner.avatar = users[videos[data[i]._id].owner].avatar

\* the number of subscription records with the given field equal to id
CountOf(field, id) ==
    Cardinality({i \in DOMAIN subscriptions : subscriptions[i][field] = id})

\* the profile of channel c as requester u must see it
ProfileIsRight(r, u, c) ==
    /\ r.out = Fulfilled
    /\ r.res.status = 200
    /\ r.res.data[1]._id = c
    /\ r.res.data[1].subscribersCount = CountOf("channel", c)
    /\ r.res.data[1].channelsSubscribedToCount = CountOf("subscriber", c)
    /\ r.res.data[1].isSubscribed =
            (\E i \in DOMAIN subscriptions :
                subscriptions[i] = [subscriber |-> u, channel |-> c])

\* the request fails with an ApiError of the given status
FailsWith(r, status) ==
    /\ r.out.kind = "rejected"
    /\ r.out.err.statusCode = status

\* C14 (as stated): a username matching user C gets C's counts and
\* isSubscribed; a username matching no user gets 404.
C14_ProfileCountsOr404 ==
    \A u \in DOMAIN users, name \in ChannelNames :
        LET r == getUserChannelProfile(Store, u, name)
        IN  IF \E c \in DOMAIN users : users[c].username = ToLowerCase(name)
            THEN \E c \in DOMAIN users :
                    users[c].username = ToLowerCase(name) /\ ProfileIsRight(r, u, c)
            ELSE FailsWith(r, 404)

\* C14 (amended): a username matching user C gets C's counts and isSubscribed;
\* a username that is blank after trimming gets 400; any other username
\* matching no user gets 404.
C14_ProfileCountsOr404UnlessBlank ==
    \A u \in DOMAIN users, name \in ChannelNames :
        LET r == getUserChannelProfile(Store, u, name)
        IN  IF \E c \in DOMAIN users : users[c].username = ToLowerCase(name)
            THEN \E c \in DOMAIN users :
                    users[c].username = ToLowerCase(name) /\ ProfileIsRight(r, u, c)
            ELSE IF Falsy(Trim(name)) THEN FailsWith(r, 400)
            ELSE FailsWith(r, 404)

\* a requester got the profile of another user's channel that has two
\* subscribers, the requester and the channel itself
C14_Witness ==
    /\ AnsweredAs("getUserChannelProfile")
    /\ resp.status = 200
    /\ resp.data[1].subscribersCount = 2
    /\ resp.data[1].channelsSubscribedToCount = 1
    /\ resp.data[1].isSubscribed
    /\ resp.data[1]._id # resp.user

\* the server takes requests
Serving == proc = "listening"

\* the result of a register request with body b and the given files, both
\* uploads being taken by the asset host
Registering(b, avatarFile, coverFile) ==
    registerUser(MulterSave(Store, {avatarFile, coverFile}), b.fullName, b.email,
                 b.username, b.password, avatarFile, coverFile, TRUE, TRUE)

\* C15: a register request one of whose fields fullName, email, username,
\* password is missing or blank after trimming is answered 400 "All fields
\* are required" and creates no user.
C15_MissingOrBlankFieldIsBadRequest ==
    \A b \in RegisterBodies :
        (Serving /\ \E f \in {"fullName", "email", "username", "password"} : Abnormal(b[f]))
            => \A files \in RegisterFiles :
                LET r == Registering(b, files[1], files[2])
                IN  /\ Answer("registerUser", r).status = 400
                    /\ Answer("registerUser", r).message = "All fields are required"
                    /\ r.st.users = users

\* a body with every field filled whose username and email belong to no user
ValidNewBody(b) ==
    /\ \A f \in {"fullName", "email", "username", "password"} : ~Abnormal(b[f])
    /\ ~Duplicate(b)
    /\ \A u \in DOMAIN users : users[u].username # ToLowerCase(b.username)

\* C16: a register request with valid, non-duplicate fields and no avatar
\* file is answered 400, uploads nothing to the asset host and creates no
\* user.
C16_NoAvatarIsBadRequest ==
    \A b \in RegisterBodies, files \in RegisterFiles :
        (Serving /\ ValidNewBody(b) /\ files[1] = Missing)
            => LET r == Registering(b, files[1], files[2])
               IN  /\ Answer("registerUser", r).status = 400
                   /\ r.st.assets = assets
                   /\ r.st.users = users

\* C17: a register request with valid, non-duplicate fields and an avatar
\* but no coverImage file is answered 201 and creates the user with an empty
\* coverImage.
C17_CoverImageIsOptional ==
    \A b \in RegisterBodies, files \in RegisterFiles :
        (Serving /\ ValidNewBody(b) /\ files[1] # Missing /\ files[2] = Missing
         /\ Cardinality(DOMAIN users) < MaxUsers)
            => LET r == Registering(b, files[1], files[2])
               IN  /\ Answer("registerUser", r).status = 201
                   /\ \E u \in DOMAIN r.st.users \ DOMAIN users :
                        /\ r.st.users[u].username = ToLowerCase(b.username)
                        /\ r.st.users[u].coverImage = NoUrl

\* C18: a login whose username and email match no user is answered 404 (user
\* does not exist), with no token in the body and no cookie set, and changes
\* nothing.
C18_UnknownUserIsNotFound ==
    \A b \in LoginBodies, saveOk \in SaveOutcomes :
        LET r == loginUser(Store, b.email, b.username, b.password, saveOk)
            answer == Answer("loginUser", r)
        IN  (/\ Serving
             /\ ~(Falsy(b.username) /\ Falsy(b.email))
             /\ FindOneByUsernameOrEmail(users, b.username, b.email) = 0)
                => /\ answer.status = 404
                   /\ answer.accessToken = NoToken /\ answer.refreshToken = NoToken
                   /\ answer.cookieAccess = NoToken /\ answer.cookieRefresh = NoToken
                   /\ r.st = Store

\* the status that answers a login of user u with the given password
LoginStatus(st, u, password) ==
    Answer("loginUser",
           loginUser(st, Missing, st.users[u].username, password, TRUE)).status

\* C19: changeCurrentPassword with an old password that is not the user's
\* is answered 400 and leaves the password as it was; with the user's old
\* password it replaces the password: afterwards a login with the new
\* password succeeds and a login with the old one, if different, gets 401.
C19_PasswordChange ==
    \A u \in DOMAIN users, old \in Passwords, new \in Passwords :
        LET r == changeCurrentPassword(Store, u, old, new)
        IN  IF users[u].password # Hash(old)
            THEN /\ Answer("changeCurrentPassword", r).status = 400
                 /\ r.st.users[u].password = users[u].password
            ELSE /\ Answer("changeCurrentPassword", r).status = 200
                 /\ LoginStatus(r.st, u, new) = 200
                 /\ old # new => LoginStatus(r.st, u, old) = 401

\* a user's password was changed to one different from the old one
C19_Witness ==
    /\ AnsweredAs("changeCurrentPassword")
    /\ resp.status = 200
    /\ LoginStatus(Store, resp.user, "q") = 200
    /\ LoginStatus(Store, resp.user, "p") = 401

\* what the claim requires of one call uploadOnCloudinary(localFilePath) made
\* in store `before` with result r
UploadContract(before, localFilePath, r) ==
    /\ ~r.threw
    /\ localFilePath = Missing => (r.ret = Null /\ r.st = before)
    /\ (localFilePath # Missing /\ r.ret.isNull)
            => (localFilePath \notin r.st.tempFiles /\ r.st.assets = before.assets)
    /\ ~r.ret.isNull
            => (r.st.tempFiles = before.tempFiles /\ localFilePath \in r.st.tempFiles)

\* C20: uploadOnCloudinary returns null for an absent path and touches
\* nothing; when the upload fails it deletes the local file and returns null,
\* never throwing; when the upload succeeds it returns the host's response and
\* leaves the local file.  Stated of the call with an absent path and of the
\* two calls registerUser makes for the files of one request.
C20_UploadNeverThrows ==
    Serving =>
        /\ \A hostOk \in HostOutcomes :
                UploadContract(Store, Missing, uploadOnCloudinary(Store, Missing, hostOk))
        /\ \A files \in RegisterFiles, avatarUp \in HostOutcomes, coverUp \in HostOutcomes :
            (files[1] # Missing /\ files[2] # Missing) =>
                LET saved == MulterSave(Store, {files[1], files[2]})
                    avatar == uploadOnCloudinary(saved, files[1], avatarUp)
                    coverImage == uploadOnCloudinary(avatar.st, files[2], coverUp)
                IN  /\ UploadContract(saved, files[1], avatar)
                    /\ UploadContract(avatar.st, files[2], coverImage)

\* the handler that updates the given image field
ImageHandler(field) ==
    IF field = "avatar" THEN "updateUserAvatar" ELSE "updateUserCoverImage"

\* C21: in updateUserAvatar and updateUserCoverImage, a request without a
\* file is answered 400 before any asset is deleted or uploaded; a request
\* whose upload to the asset host fails is answered 400 and leaves the user's
\* stored URL as it was.
C21_FailedImageUploadIsBadRequest ==
    \A u \in DOMAIN users, field \in {"avatar", "coverImage"}, file \in ImageFiles,
       deleteOk \in HostOutcomes, uploadOk \in HostOutcomes :
        LET saved == MulterSave(Store, {file})
            deleted == deleteFromCloudinary(saved, users[u][field], deleteOk)
            uploaded == uploadOnCloudinary(deleted.st, file, uploadOk)
            r == updateUserImage(saved, u, field, file, deleteOk, uploadOk)
        IN  Serving =>
                /\ file = Missing =>
                        /\ Answer(ImageHandler(field), r).status = 400
                        /\ r.st = Store
                /\ (file # Missing /\ ~deleted.threw /\ ~uploaded.threw
                    /\ uploaded.ret.isNull) =>
                        /\ Answer(ImageHandler(field), r).status = 400
                        /\ r.st.users[u][field] = users[u][field]

\* C22: in every response a controller built with ApiResponse, the body's
\* statusCode equals the HTTP status of the response, and the body's sucess
\* flag is true exactly when that statusCode is below 400.
C22_BodyStatusIsHttpStatus ==
    resp.format = "ApiResponse" =>
        /\ resp.bodyStatusCode = resp.status
        /\ sucess(resp.bodyStatusCode) <=> resp.status < 400

\* the clients whose refresh request presented the token tok
Redeemers(tok) ==
    {c \in Clients : inflight[c].kind = "refreshAccessToken" /\ inflight[c].presented = tok}

\* C23: a refresh token is redeemable at most once: of the concurrent refresh
\* requests that present the same stored refresh token at most one is
\* answered 200, and once all have completed every client answered 200 holds
\* the refresh token that is stored.
C23_RefreshTokenRedeemedOnce ==
    \A c \in Clients :
        (Quiescent /\ inflight[c].kind = "refreshAccessToken" /\ inflight[c].status = 200)
            => /\ \A d \in Redeemers(inflight[c].presented) :
                    inflight[d].status = 200 => d = c
               /\ users[inflight[c].uid].refreshToken = inflight[c].refreshToken

\* C24: when a logout and a concurrent refresh of the same user have both
\* completed and the logout was answered 200, with no login since, the user
\* has no stored refresh token and no refresh token issued to the user is
\* redeemable.
C24_LogoutWinsOverRefresh ==
    \A c \in Clients :
        (Quiescent /\ inflight[c].kind = "logoutUser" /\ inflight[c].status = 200)
            => /\ users[inflight[c].uid].refreshToken = NoToken
               /\ \A t \in Signed("refresh") :
                    t.uid = inflight[c].uid =>
                        Answer("refreshAccessToken",
                               refreshAccessToken(Store, t, NoToken, TRUE)).status # 200

C26_NoSecretsInResponses ==
    /\ "password" \notin resp.userFields
    /\ "refreshToken" \notin resp.userFields
    /\ resp.refreshToken # NoToken =>
            /\ resp.status = 200
            /\ AnsweredBy("loginUser") \/ AnsweredBy("refreshAccessToken")

\* C27: after an updateUserAvatar or updateUserCoverImage request has
\* finished, whether it succeeded or failed, every stored avatar and
\* coverImage URL refers to an asset that exists on the asset host.
C27_StoredImagesExist ==
    (AnsweredAs("updateUserAvatar") \/ AnsweredAs("updateUserCoverImage"))
        => \A u \in DOMAIN users, field \in {"avatar", "coverImage"} :
                users[u][field] # NoUrl =>
                    getPublicIdFromUrl(users[u][field]) \in assets

\* C28: two requests that upload files concurrently never use the same
\* temporary file path, so the bytes a request passes to the asset host are
\* the bytes that request uploaded, even when the files of both clients have
\* the same original name.
C28_TempFilesAreNotShared ==
    \A c \in Clients :
        /\ inflight[c].sent # 0 => inflight[c].sent = c
        /\ \A d \in Clients \ {c} :
                (inflight[c].pc \in {"delete", "upload"}
                 /\ inflight[d].pc \in {"delete", "upload"})
                    => inflight[c].file # inflight[d].file

\* an access token issued to user u at time iat
AccessTokenOf(u, iat) == [typ |-> "access", uid |-> u, iat |-> iat, sig |-> "ok"]

\* C29: logout and refresh do not revoke access tokens: in every state, also
\* after a logout or a refresh of the user, verifyJWT accepts an access token
\* issued earlier to an existing user for as long as it is unexpired, in the
\* cookie or in the header, whatever refresh token is stored.
C29_AccessTokensOutliveTheSession ==
    \A u \in DOMAIN users, iat \in 0..now :
        now < Exp(AccessTokenOf(u, iat)) =>
            /\ verifyJWT(AccessTokenOf(u, iat), NoToken) = [out |-> Fulfilled, uid |-> u]
            /\ verifyJWT(NoToken, AccessTokenOf(u, iat)) = [out |-> Fulfilled, uid |-> u]

\* a user has logged out, holds no stored refresh token, and the access token
\* of the login is unexpired and still accepted
C29_Witness ==
    /\ AnsweredAs("logoutUser")
    /\ resp.status = 200
    /\ users[resp.user].refreshToken = NoToken
    /\ resp.overwritten # NoToken
    /\ now < Exp(AccessTokenOf(resp.user, resp.overwritten.iat))
    /\ verifyJWT(AccessTokenOf(resp.user, resp.overwritten.iat), NoToken).out = Fulfilled

====
